---- MODULE Spec2Model ----
(***************************************************************************)
(* A model of the KCP control block of src/kcp.cpp: the four queues, the   *)
(* ack list, send / receive / input / flush / update and the configuration *)
(* calls, each translated from its code.                                   *)
(*                                                                         *)
(* uint32_t arithmetic is modular.  TLC's integers are 32-bit signed, so   *)
(* the modulus is modelled as 2^30 (UINT32) and a signed 32-bit value as   *)
(* one in [-2^29, 2^29); every uint32_t expression of the code is reduced  *)
(* by u32(...) where the code's own arithmetic wraps.                      *)
(*                                                                         *)
(* _itimediff returns `long`, whose width the C++ build fixes: 32 bits     *)
(* (ILP32, LLP64) or 64 bits (LP64).  long_bits records the build; it is   *)
(* chosen in Init and never changes.                                       *)
(***************************************************************************)
EXTENDS Integers, Sequences, FiniteSets, TLC

VARIABLES
    long_bits,  \* width of `long` in the build: 32 or 64
    kcb,        \* the control block (endpoint A in the two-endpoint runs)
    peer,       \* the control block of endpoint B, or NoPeer
    a2b,        \* datagrams in flight from A to B: a set where the channel
                \* may reorder and duplicate, a FIFO sequence in a driven run
    b2a,        \* datagrams in flight from B to A, likewise
    outs,       \* datagrams the last operation passed to the output callback
    ret,        \* the last operation and its return code
    sent,       \* payloads accepted by A.send, in order
    rcvd,       \* payloads returned by B.receive, in order
    hist        \* how many operations of each kind have run, and the
                \* largest rcv_wnd configured so far (wmax); in a driven run
                \* the driver's position (pc, round), the datagrams lost,
                \* the WASKs seen (wask) and whether A saw a closed window

vars == <<long_bits, kcb, peer, a2b, b2a, outs, ret, sent, rcvd, hist>>

-----------------------------------------------------------------------------
(* Program constants, src/kcp.cpp:30-51 *)
IKCP_RTO_NDL == 30
IKCP_RTO_MIN == 100
IKCP_RTO_DEF == 200
IKCP_RTO_MAX == 60000
IKCP_CMD_PUSH == 81
IKCP_CMD_ACK == 82
IKCP_CMD_WASK == 83
IKCP_CMD_WINS == 84
IKCP_ASK_SEND == 1
IKCP_ASK_TELL == 2
IKCP_WND_SND == 32
IKCP_WND_RCV == 128
IKCP_MTU_DEF == 1400
IKCP_INTERVAL == 100
IKCP_OVERHEAD == 24
IKCP_DEADLINK == 20
IKCP_THRESH_INIT == 2
IKCP_THRESH_MIN == 2
IKCP_PROBE_INIT == 7000
IKCP_PROBE_LIMIT == 120000
IKCP_FASTACK_LIMIT == 5

-----------------------------------------------------------------------------
(* Integer widths *)

\* The modulus standing for 2^32 (uint32_t), see the module comment.
UINT32 == 1073741824
\* (uint32_t) x
u32(x) == x % UINT32
\* (int32_t) x : the value reduced to the signed range
i32(x) == LET y == x % UINT32 IN IF y >= UINT32 \div 2 THEN y - UINT32 ELSE y
\* static_cast<long>(x) of a uint32_t x: value preserving when long is wider
\* than 32 bits, reduced to the signed range when long has 32 bits.
to_long(x) == IF long_bits = 32 THEN i32(x) ELSE x
\* static_cast<uint8_t>, static_cast<uint16_t> in encode_seg
u8(x) == x % 256
u16(x) == x % 65536

Min(a, b) == IF a < b THEN a ELSE b
Max(a, b) == IF a > b THEN a ELSE b

\* _ibound_(lower, middle, upper), on uint32_t operands
_ibound_(lower, middle, upper) == Min(Max(u32(lower), u32(middle)), u32(upper))

\* _itimediff(later, earlier): static_cast<long>(later - earlier)
_itimediff(later, earlier) == to_long(u32(later - earlier))

-----------------------------------------------------------------------------
(* Sequence helpers *)

Front(s) == SubSeq(s, 1, Len(s) - 1)
Last(s) == s[Len(s)]
RemoveAt(s, i) == SubSeq(s, 1, i - 1) \o SubSeq(s, i + 1, Len(s))
InsertAt(s, i, e) == SubSeq(s, 1, i - 1) \o <<e>> \o SubSeq(s, i, Len(s))

-----------------------------------------------------------------------------
(* kcp::kcp(conv, user): the control block after construction *)
NewKcp(conv) ==
    [ conv |-> conv, snd_una |-> 0, snd_nxt |-> 0, rcv_nxt |-> 0,
      ts_probe |-> 0, probe_wait |-> 0,
      snd_wnd |-> IKCP_WND_SND, rcv_wnd |-> IKCP_WND_RCV, rmt_wnd |-> IKCP_WND_RCV,
      cwnd |-> 0, incr |-> 0, probe |-> 0,
      mtu |-> IKCP_MTU_DEF, mss |-> IKCP_MTU_DEF - IKCP_OVERHEAD, stream |-> 0,
      state |-> 0, rx_srtt |-> 0, rx_rttval |-> 0, rx_rto |-> IKCP_RTO_DEF,
      rx_minrto |-> IKCP_RTO_MIN, current |-> 0, interval |-> IKCP_INTERVAL,
      ts_flush |-> IKCP_INTERVAL, nodelay |-> 0, updated |-> 0,
      ssthresh |-> IKCP_THRESH_INIT, fastresend |-> 0,
      fastlimit |-> IKCP_FASTACK_LIMIT, nocwnd |-> 0, xmit |-> 0,
      dead_link |-> IKCP_DEADLINK,
      snd_queue |-> <<>>, snd_buf |-> <<>>, rcv_queue |-> <<>>, rcv_buf |-> <<>>,
      acklist |-> <<>> ]

-----------------------------------------------------------------------------
(* Application send and receive *)

\* a payload of len bytes carrying the tag id: byte i of message id is
\* 1000 * id + i, so that a cut, a merge or a reordering of payloads shows
Payload(id, len) == [i \in 1..len |-> 1000 * id + i]

RECURSIVE fragment(_, _, _, _, _)
\* the loop of kcp::send that appends count segments cut at mss
fragment(k, buffer, count, i, queue) ==
    IF i >= count THEN queue
    ELSE LET len  == Len(buffer)
             size == IF len > k.mss THEN k.mss ELSE len
             seg  == [ frg  |-> IF k.stream = 0 THEN count - i - 1 ELSE 0,
                       data |-> SubSeq(buffer, 1, size) ]
         IN fragment(k, SubSeq(buffer, size + 1, len), count, i + 1,
                     Append(queue, seg))

\* kcp::send(buffer, len) with a non-null buffer of len >= 0 bytes:
\* [k |-> the control block afterwards, ret |-> the return code]
send(k, buffer) ==
    LET len0 == Len(buffer)
        can_append == /\ k.stream # 0
                      /\ k.snd_queue # <<>>
                      /\ Len(Last(k.snd_queue).data) < k.mss
        capacity == k.mss - Len(Last(k.snd_queue).data)
        extend == IF can_append THEN Min(len0, capacity) ELSE 0
        queue1 == IF can_append
                  THEN Append(Front(k.snd_queue),
                              [ frg  |-> 0,
                                data |-> Last(k.snd_queue).data
                                           \o SubSeq(buffer, 1, extend) ])
                  ELSE k.snd_queue
        rest == SubSeq(buffer, extend + 1, len0)
        len == len0 - extend
        k1 == [k EXCEPT !.snd_queue = queue1]
        count0 == IF len <= k.mss THEN 1 ELSE (len + k.mss - 1) \div k.mss
        count == IF count0 = 0 THEN 1 ELSE count0
    IN IF k.stream # 0 /\ len <= 0 THEN [k |-> k1, ret |-> 0]
       ELSE IF count0 >= IKCP_WND_RCV THEN [k |-> k1, ret |-> -2]
       ELSE [k |-> [k1 EXCEPT !.snd_queue = fragment(k1, rest, count, 0, queue1)],
             ret |-> 0]

RECURSIVE head_length(_)
\* the loop of PeekSize / receive: payload bytes up to and including the
\* first segment with frg = 0 (or to the end of the queue)
head_length(queue) ==
    IF queue = <<>> THEN 0
    ELSE IF Head(queue).frg = 0 THEN Len(Head(queue).data)
    ELSE Len(Head(queue).data) + head_length(Tail(queue))

\* a variant of PeekSize that does not wait for the last fragment
PeekSize_eager(k) ==
    IF k.rcv_queue = <<>> THEN -1 ELSE head_length(k.rcv_queue)
\* kcp::PeekSize()
PeekSize(k) ==
    IF k.rcv_queue = <<>> THEN -1
    ELSE IF Head(k.rcv_queue).frg = 0 THEN Len(Head(k.rcv_queue).data)
    ELSE IF Len(k.rcv_queue) < Head(k.rcv_queue).frg + 1 THEN -1
    ELSE head_length(k.rcv_queue)

RECURSIVE head_count(_)
\* number of segments the merge loop of receive visits
head_count(queue) ==
    IF queue = <<>> THEN 0
    ELSE IF Head(queue).frg = 0 THEN 1
    ELSE 1 + head_count(Tail(queue))

RECURSIVE merge_data(_, _)
\* the bytes the merge loop copies from the first n segments
merge_data(queue, n) ==
    IF n = 0 THEN <<>> ELSE Head(queue).data \o merge_data(Tail(queue), n - 1)

RECURSIVE move_to_queue_any(_)
\* a variant of move_to_queue that does not compare the head's sn to rcv_nxt
move_to_queue_any(k) ==
    IF k.rcv_buf # <<>> /\ Len(k.rcv_queue) < k.rcv_wnd
    THEN move_to_queue_any([k EXCEPT !.rcv_queue = Append(@, Head(k.rcv_buf)),
                                     !.rcv_buf = Tail(@),
                                     !.rcv_nxt = u32(@ + 1)])
    ELSE k
RECURSIVE move_to_queue(_)
\* "move available data from rcv_buf -> rcv_queue" (parse_data and receive)
move_to_queue(k) ==
    IF /\ k.rcv_buf # <<>>
       /\ Head(k.rcv_buf).sn = k.rcv_nxt
       /\ Len(k.rcv_queue) < k.rcv_wnd
    THEN move_to_queue([k EXCEPT !.rcv_queue = Append(@, Head(k.rcv_buf)),
                                 !.rcv_buf = Tail(@),
                                 !.rcv_nxt = u32(@ + 1)])
    ELSE k

\* kcp::receive(buffer, len) with a non-null buffer; len < 0 asks for a peek:
\* [k, ret, data |-> the bytes copied to the caller's buffer]
receive(k, len0) ==
    LET ispeek == len0 < 0
        len == IF len0 < 0 THEN -len0 ELSE len0
        peeksize == PeekSize(k)
        recover == Len(k.rcv_queue) >= k.rcv_wnd
        n == head_count(k.rcv_queue)
        k1 == IF ispeek THEN k
              ELSE [k EXCEPT !.rcv_queue = SubSeq(@, n + 1, Len(@))]
        k2 == move_to_queue(k1)
        k3 == IF Len(k2.rcv_queue) < k2.rcv_wnd /\ recover
              THEN [k2 EXCEPT !.probe = IF (@ \div IKCP_ASK_TELL) % 2 = 1 THEN @
                                        ELSE @ + IKCP_ASK_TELL]
              ELSE k2
    IN IF k.rcv_queue = <<>> THEN [k |-> k, ret |-> -1, data |-> <<>>]
       ELSE IF peeksize < 0 THEN [k |-> k, ret |-> -2, data |-> <<>>]
       ELSE IF peeksize > len THEN [k |-> k, ret |-> -3, data |-> <<>>]
       ELSE [k |-> k3, ret |-> head_length(k.rcv_queue),
             data |-> merge_data(k.rcv_queue, n)]

\* kcp::receive(std::vector<char> &buffer) with a vector of size bytes:
\* [k, ret, data]
receive_vector(k, size) ==
    LET peeksize == PeekSize(k)
    IN IF peeksize < 0 THEN [k |-> k, ret |-> -2, data |-> <<>>]
       ELSE receive(k, IF peeksize > size THEN peeksize ELSE size)

-----------------------------------------------------------------------------
(* Ingress *)

\* C++ integer division (truncation toward zero) by a positive divisor
cdiv(a, b) == IF a >= 0 THEN a \div b ELSE -((-a) \div b)

\* kcp::update_ack(rtt); rtt is an int32_t parameter
update_ack(k, rtt) ==
    LET first == k.rx_srtt = 0
        delta0 == rtt - k.rx_srtt
        delta == IF delta0 < 0 THEN -delta0 ELSE delta0
        rttval == IF first THEN cdiv(rtt, 2)
                  ELSE cdiv(3 * k.rx_rttval + delta, 4)
        srtt0 == IF first THEN rtt ELSE cdiv(7 * k.rx_srtt + rtt, 8)
        srtt == IF ~first /\ srtt0 < 1 THEN 1 ELSE srtt0
        rto == i32(srtt + Max(u32(k.interval), u32(4 * rttval)))
    IN [k EXCEPT !.rx_srtt = srtt, !.rx_rttval = rttval,
                 !.rx_rto = i32(_ibound_(k.rx_minrto, rto, IKCP_RTO_MAX))]

\* a variant of shrink_buffer that leaves snd_una alone once snd_buf is empty
shrink_buffer_stale(k) ==
    IF k.snd_buf # <<>> THEN [k EXCEPT !.snd_una = Head(k.snd_buf).sn] ELSE k
\* kcp::shrink_buffer()
shrink_buffer(k) ==
    IF k.snd_buf # <<>> THEN [k EXCEPT !.snd_una = Head(k.snd_buf).sn]
    ELSE [k EXCEPT !.snd_una = k.snd_nxt]

RECURSIVE ack_scan(_, _, _)
\* the loop of parse_ack: the index of the segment to erase, or 0
ack_scan(buf, i, sn) ==
    IF i > Len(buf) THEN 0
    ELSE IF sn = buf[i].sn THEN i
    ELSE IF _itimediff(sn, buf[i].sn) < 0 THEN 0
    ELSE ack_scan(buf, i + 1, sn)

\* kcp::parse_ack(sn)
parse_ack(k, sn) ==
    IF _itimediff(sn, k.snd_una) < 0 \/ _itimediff(sn, k.snd_nxt) >= 0 THEN k
    ELSE LET i == ack_scan(k.snd_buf, 1, sn)
         IN IF i = 0 THEN k ELSE [k EXCEPT !.snd_buf = RemoveAt(@, i)]

RECURSIVE una_scan(_, _)
\* the loop of parse_una on the list
una_scan(buf, una) ==
    IF buf # <<>> /\ _itimediff(una, Head(buf).sn) > 0
    THEN una_scan(Tail(buf), una)
    ELSE buf

\* a variant of parse_una that erases the head of snd_buf whatever una is
parse_una_head(k, una) ==
    IF k.snd_buf # <<>> THEN [k EXCEPT !.snd_buf = Tail(@)] ELSE k
\* kcp::parse_una(una)
parse_una(k, una) == [k EXCEPT !.snd_buf = una_scan(@, una)]

RECURSIVE fast_scan(_, _, _)
\* the loop of parse_fast_ack (IKCP_FASTACK_CONSERVE not defined)
fast_scan(buf, i, sn) ==
    IF i > Len(buf) THEN buf
    ELSE IF _itimediff(sn, buf[i].sn) < 0 THEN buf
    ELSE IF sn # buf[i].sn
         THEN fast_scan([buf EXCEPT ![i].fastack = u32(@ + 1)], i + 1, sn)
         ELSE fast_scan(buf, i + 1, sn)

\* a variant of parse_fast_ack that counts nothing
parse_fast_ack_off(k, sn, ts) == k
\* kcp::parse_fast_ack(sn, ts)
parse_fast_ack(k, sn, ts) ==
    IF _itimediff(sn, k.snd_una) < 0 \/ _itimediff(sn, k.snd_nxt) >= 0 THEN k
    ELSE [k EXCEPT !.snd_buf = fast_scan(@, 1, sn)]

RECURSIVE data_scan_blind(_, _, _)
\* a variant of data_scan that does not recognise an sn it already holds
data_scan_blind(buf, i, sn) ==
    IF i = 0 THEN [repeat |-> FALSE, pos |-> 0]
    ELSE IF _itimediff(sn, buf[i].sn) > 0 THEN [repeat |-> FALSE, pos |-> i]
    ELSE data_scan_blind(buf, i - 1, sn)
RECURSIVE data_scan(_, _, _)
\* the reverse loop of parse_data: [repeat, pos] where pos is the number of
\* segments that stay in front of the insertion point (seg_riter.base())
data_scan(buf, i, sn) ==
    IF i = 0 THEN [repeat |-> FALSE, pos |-> 0]
    ELSE IF buf[i].sn = sn THEN [repeat |-> TRUE, pos |-> i]
    ELSE IF _itimediff(sn, buf[i].sn) > 0 THEN [repeat |-> FALSE, pos |-> i]
    ELSE data_scan(buf, i - 1, sn)

\* a variant of parse_data that keeps no segment
parse_data_none(k, newseg) == k
\* kcp::parse_data(newseg)
parse_data(k, newseg) ==
    LET sn == newseg.sn IN
    IF \/ _itimediff(sn, u32(k.rcv_nxt + k.rcv_wnd)) >= 0
       \/ _itimediff(sn, k.rcv_nxt) < 0
    THEN k
    ELSE LET r == data_scan(k.rcv_buf, Len(k.rcv_buf), sn)
             k1 == IF r.repeat THEN k
                   ELSE [k EXCEPT !.rcv_buf = InsertAt(@, r.pos + 1, newseg)]
         IN move_to_queue(k1)

\* the congestion window update at the end of kcp::input
input_cwnd(k, prev_una) ==
    IF _itimediff(k.snd_una, prev_una) > 0 /\ k.cwnd < k.rmt_wnd
    THEN LET mss == k.mss
             incr0 == IF k.incr < mss THEN mss ELSE k.incr
             incr1 == u32(incr0 + (mss * mss) \div incr0 + mss \div 16)
             k1 == IF k.cwnd < k.ssthresh
                   THEN [k EXCEPT !.cwnd = u32(@ + 1), !.incr = u32(@ + mss)]
                   ELSE [k EXCEPT !.incr = incr1,
                                  !.cwnd = IF u32((k.cwnd + 1) * mss) <= incr1
                                           THEN (incr1 + mss - 1) \div mss
                                           ELSE @]
         IN IF k1.cwnd > k1.rmt_wnd
            THEN [k1 EXCEPT !.cwnd = k1.rmt_wnd, !.incr = u32(k1.rmt_wnd * mss)]
            ELSE k1
    ELSE k

\* bytes of a datagram: a 24-byte header and the payload for each segment,
\* then d.trail bytes that hold no complete header
wire_size(w) == IKCP_OVERHEAD + Len(w.data)
RECURSIVE segs_size(_)
segs_size(ws) == IF ws = <<>> THEN 0 ELSE wire_size(Head(ws)) + segs_size(Tail(ws))
dgram_size(d) == segs_size(d.segs) + d.trail

\* one iteration of the scan loop of kcp::input on the decoded segment w,
\* after the conv, len and cmd checks: a = [k, flag, maxack, latest_ts]
input_seg(a, w) ==
    LET k1 == shrink_buffer(parse_una([a.k EXCEPT !.rmt_wnd = w.wnd], w.una)) IN
    IF w.cmd = IKCP_CMD_ACK
    THEN LET k2 == IF _itimediff(k1.current, w.ts) >= 0
                   THEN update_ack(k1, i32(_itimediff(k1.current, w.ts)))
                   ELSE k1
             k3 == shrink_buffer(parse_ack(k2, w.sn))
             newer == a.flag = 0 \/ _itimediff(w.sn, a.maxack) > 0
         IN [ k |-> k3, flag |-> 1,
              maxack |-> IF newer THEN w.sn ELSE a.maxack,
              latest_ts |-> IF newer THEN w.ts ELSE a.latest_ts ]
    ELSE IF w.cmd = IKCP_CMD_PUSH
    THEN IF _itimediff(w.sn, u32(k1.rcv_nxt + k1.rcv_wnd)) < 0
         THEN LET k2 == [k1 EXCEPT !.acklist = Append(@, <<w.sn, w.ts>>)]
                  seg == [ conv |-> w.conv, cmd |-> w.cmd, frg |-> w.frg,
                           wnd |-> w.wnd, ts |-> w.ts, sn |-> w.sn,
                           una |-> w.una, data |-> w.data ]
              IN [a EXCEPT !.k = IF _itimediff(w.sn, k1.rcv_nxt) >= 0
                                 THEN parse_data(k2, seg) ELSE k2]
         ELSE [a EXCEPT !.k = k1]
    ELSE IF w.cmd = IKCP_CMD_WASK
    THEN [a EXCEPT !.k = [k1 EXCEPT !.probe =
                            IF (@ \div IKCP_ASK_TELL) % 2 = 1 THEN @
                            ELSE @ + IKCP_ASK_TELL]]
    ELSE [a EXCEPT !.k = k1]

RECURSIVE input_scan_cmd_first(_, _, _)
\* a variant of input_scan that looks at cmd before len
input_scan_cmd_first(a, ws, size) ==
    IF size < IKCP_OVERHEAD \/ ws = <<>> THEN [a |-> a, ret |-> 0]
    ELSE LET w == Head(ws) IN
         IF w.conv # a.k.conv THEN [a |-> a, ret |-> -1]
         ELSE IF w.cmd \notin {IKCP_CMD_PUSH, IKCP_CMD_ACK,
                               IKCP_CMD_WASK, IKCP_CMD_WINS}
              THEN [a |-> a, ret |-> -3]
         ELSE IF size - IKCP_OVERHEAD < w.len THEN [a |-> a, ret |-> -2]
         ELSE input_scan_cmd_first(input_seg(a, w), Tail(ws),
                                   size - IKCP_OVERHEAD - w.len)
RECURSIVE input_scan(_, _, _)
\* the while loop of kcp::input over the segments ws with size bytes left:
\* [a, ret] where ret = 0 means the loop ended by its break
input_scan(a, ws, size) ==
    IF size < IKCP_OVERHEAD \/ ws = <<>> THEN [a |-> a, ret |-> 0]
    ELSE LET w == Head(ws) IN
         IF w.conv # a.k.conv THEN [a |-> a, ret |-> -1]
         ELSE IF size - IKCP_OVERHEAD < w.len THEN [a |-> a, ret |-> -2]
         ELSE IF w.cmd \notin {IKCP_CMD_PUSH, IKCP_CMD_ACK,
                               IKCP_CMD_WASK, IKCP_CMD_WINS}
              THEN [a |-> a, ret |-> -3]
         ELSE input_scan(input_seg(a, w), Tail(ws),
                         size - IKCP_OVERHEAD - w.len)

\* kcp::input(NULL, size): [k, ret]
input_null(k) == [k |-> k, ret |-> -1]

\* kcp::input(data, size) with non-null data holding the datagram d:
\* [k, ret]
input(k, d) ==
    IF dgram_size(d) < IKCP_OVERHEAD THEN [k |-> k, ret |-> -1]
    ELSE LET r == input_scan([k |-> k, flag |-> 0, maxack |-> 0, latest_ts |-> 0],
                             d.segs, dgram_size(d))
             k1 == IF r.a.flag # 0
                   THEN parse_fast_ack(r.a.k, r.a.maxack, r.a.latest_ts)
                   ELSE r.a.k
         IN IF r.ret # 0 THEN [k |-> r.a.k, ret |-> r.ret]
            ELSE [k |-> input_cwnd(k1, k.snd_una), ret |-> 0]

-----------------------------------------------------------------------------
(* Egress *)

\* the value (uint32_t)-1 that flush stores in state for a dead link, and
\* the 0xffffffff that stands for "no fast resend"
ALL_ONES == UINT32 - 1

\* kcp::window_unused()
window_unused(k) ==
    IF Len(k.rcv_queue) < k.rcv_wnd THEN k.rcv_wnd - Len(k.rcv_queue) ELSE 0

\* kcp::encode_seg(ptr, seg) followed by the copy of the payload: the
\* segment as it stands in the datagram
encode_seg(seg) ==
    [ conv |-> seg.conv, cmd |-> u8(seg.cmd), frg |-> u8(seg.frg),
      wnd |-> u16(seg.wnd), ts |-> seg.ts, sn |-> seg.sn, una |-> seg.una,
      len |-> Len(seg.data), data |-> seg.data ]

\* kcp_output(buffer, size) on the staging buffer st = [stage, outs]: the
\* callback is not invoked for size = 0
kcp_output(st) ==
    IF segs_size(st.stage) = 0 THEN [st EXCEPT !.stage = <<>>]
    ELSE [ stage |-> <<>>,
           outs |-> Append(st.outs, [segs |-> st.stage, trail |-> 0]) ]

\* "if (size + need > mtu) { kcp_output(buffer, size); ptr = buffer; }"
\* followed by encode_seg and the payload copy
stage_seg(st, seg, mtu) ==
    LET st1 == IF segs_size(st.stage) + IKCP_OVERHEAD + Len(seg.data) > mtu
               THEN kcp_output(st) ELSE st
    IN [st1 EXCEPT !.stage = Append(@, encode_seg(seg))]

RECURSIVE flush_acks(_, _, _, _)
\* "flush acknowledges": the loop over acklist
flush_acks(k, st, seg, i) ==
    IF i > Len(k.acklist) THEN st
    ELSE flush_acks(k,
                    stage_seg(st, [seg EXCEPT !.sn = k.acklist[i][1],
                                              !.ts = k.acklist[i][2]], k.mtu),
                    seg, i + 1)

\* a variant of flush_probe that arms the timer and never asks for a WASK
flush_probe_silent(k) ==
    IF k.rmt_wnd = 0
    THEN IF k.probe_wait = 0
         THEN [k EXCEPT !.probe_wait = IKCP_PROBE_INIT,
                        !.ts_probe = u32(k.current + IKCP_PROBE_INIT)]
         ELSE k
    ELSE [k EXCEPT !.ts_probe = 0, !.probe_wait = 0]
\* "probe window size (if remote window size equals zero)"
flush_probe(k) ==
    IF k.rmt_wnd = 0
    THEN IF k.probe_wait = 0
         THEN [k EXCEPT !.probe_wait = IKCP_PROBE_INIT,
                        !.ts_probe = u32(k.current + IKCP_PROBE_INIT)]
         ELSE IF _itimediff(k.current, k.ts_probe) >= 0
         THEN LET w0 == IF k.probe_wait < IKCP_PROBE_INIT
                        THEN IKCP_PROBE_INIT ELSE k.probe_wait
                  w1 == u32(w0 + w0 \div 2)
                  w2 == IF w1 > IKCP_PROBE_LIMIT THEN IKCP_PROBE_LIMIT ELSE w1
              IN [k EXCEPT !.probe_wait = w2,
                           !.ts_probe = u32(k.current + w2),
                           !.probe = IF @ % 2 = 1 THEN @ ELSE @ + IKCP_ASK_SEND]
         ELSE k
    ELSE [k EXCEPT !.ts_probe = 0, !.probe_wait = 0]

\* "flush window probing commands": WASK, then WINS
flush_probe_cmds(k, st, seg) ==
    LET st1 == IF k.probe % 2 = 1
               THEN stage_seg(st, [seg EXCEPT !.cmd = IKCP_CMD_WASK], k.mtu)
               ELSE st
    IN IF (k.probe \div IKCP_ASK_TELL) % 2 = 1
       THEN stage_seg(st1, [seg EXCEPT !.cmd = IKCP_CMD_WINS], k.mtu)
       ELSE st1

\* a variant of flush_cwnd that leaves the remote window out
flush_cwnd_local(k) ==
    IF k.nocwnd = 0 THEN Min(k.cwnd, k.snd_wnd) ELSE k.snd_wnd
\* "calculate window size"
flush_cwnd(k) ==
    LET cwnd == Min(k.snd_wnd, k.rmt_wnd)
    IN IF k.nocwnd = 0 THEN Min(k.cwnd, cwnd) ELSE cwnd

RECURSIVE flush_move_over(_, _, _)
\* a variant of flush_move that fills the window and one segment more
flush_move_over(k, cwnd, wnd) ==
    IF _itimediff(k.snd_nxt, u32(k.snd_una + cwnd)) <= 0 /\ k.snd_queue # <<>>
    THEN LET q == Head(k.snd_queue)
             newseg == [ conv |-> k.conv, cmd |-> IKCP_CMD_PUSH, frg |-> q.frg,
                         wnd |-> wnd, ts |-> k.current, sn |-> k.snd_nxt,
                         una |-> k.rcv_nxt, data |-> q.data,
                         resendts |-> k.current, rto |-> k.rx_rto,
                         fastack |-> 0, xmit |-> 0 ]
         IN flush_move_over([k EXCEPT !.snd_queue = Tail(@),
                                      !.snd_buf = Append(@, newseg),
                                      !.snd_nxt = u32(@ + 1)], cwnd, wnd)
    ELSE k
RECURSIVE flush_move(_, _, _)
\* "move data from snd_queue to snd_buf"
flush_move(k, cwnd, wnd) ==
    IF _itimediff(k.snd_nxt, u32(k.snd_una + cwnd)) < 0 /\ k.snd_queue # <<>>
    THEN LET q == Head(k.snd_queue)
             newseg == [ conv |-> k.conv, cmd |-> IKCP_CMD_PUSH, frg |-> q.frg,
                         wnd |-> wnd, ts |-> k.current, sn |-> k.snd_nxt,
                         una |-> k.rcv_nxt, data |-> q.data,
                         resendts |-> k.current, rto |-> k.rx_rto,
                         fastack |-> 0, xmit |-> 0 ]
         IN flush_move([k EXCEPT !.snd_queue = Tail(@),
                                 !.snd_buf = Append(@, newseg),
                                 !.snd_nxt = u32(@ + 1)], cwnd, wnd)
    ELSE k

\* a variant of flush_decide whose timeout step is half the segment's rto in
\* every nodelay mode but 0
flush_decide_segrto(k, seg, resent, rtomin) ==
    IF seg.xmit = 0
    THEN [ kind |-> "first",
           seg |-> [seg EXCEPT !.xmit = u32(@ + 1), !.rto = k.rx_rto,
                               !.resendts = u32(k.current + k.rx_rto + rtomin)] ]
    ELSE IF _itimediff(k.current, seg.resendts) >= 0
    THEN LET rto == IF k.nodelay = 0
                    THEN u32(seg.rto + Max(seg.rto, u32(k.rx_rto)))
                    ELSE u32(seg.rto + cdiv(i32(seg.rto), 2))
         IN [ kind |-> "timeout",
              seg |-> [seg EXCEPT !.xmit = u32(@ + 1), !.rto = rto,
                                  !.resendts = u32(k.current + rto)] ]
    ELSE IF /\ seg.fastack >= resent
            /\ (i32(seg.xmit) <= k.fastlimit \/ k.fastlimit <= 0)
    THEN [ kind |-> "fast",
           seg |-> [seg EXCEPT !.xmit = u32(@ + 1), !.fastack = 0,
                               !.resendts = u32(k.current + seg.rto)] ]
    ELSE [ kind |-> "none", seg |-> seg ]
\* the send decision of "flush data segments" for one segment of snd_buf:
\* [seg, kind] with kind one of "first", "timeout", "fast", "none"
flush_decide(k, seg, resent, rtomin) ==
    IF seg.xmit = 0
    THEN [ kind |-> "first",
           seg |-> [seg EXCEPT !.xmit = u32(@ + 1), !.rto = k.rx_rto,
                               !.resendts = u32(k.current + k.rx_rto + rtomin)] ]
    ELSE IF _itimediff(k.current, seg.resendts) >= 0
    THEN LET step == IF k.nodelay < 2 THEN i32(seg.rto) ELSE k.rx_rto
             rto == IF k.nodelay = 0
                    THEN u32(seg.rto + Max(seg.rto, u32(k.rx_rto)))
                    ELSE u32(seg.rto + cdiv(step, 2))
         IN [ kind |-> "timeout",
              seg |-> [seg EXCEPT !.xmit = u32(@ + 1), !.rto = rto,
                                  !.resendts = u32(k.current + rto)] ]
    ELSE IF /\ seg.fastack >= resent
            /\ (i32(seg.xmit) <= k.fastlimit \/ k.fastlimit <= 0)
    THEN [ kind |-> "fast",
           seg |-> [seg EXCEPT !.xmit = u32(@ + 1), !.fastack = 0,
                               !.resendts = u32(k.current + seg.rto)] ]
    ELSE [ kind |-> "none", seg |-> seg ]

\* a variant of flush_dead that needs one transmission more
flush_dead_late(k, seg) == IF seg.xmit > k.dead_link THEN ALL_ONES ELSE k.state
\* "if (seg_iter->xmit >= this->dead_link) this->state = (uint32_t)-1": the
\* value of state after the segment seg was sent
flush_dead(k, seg) == IF seg.xmit >= k.dead_link THEN ALL_ONES ELSE k.state

RECURSIVE flush_data(_, _, _, _, _)
\* "flush data segments": the loop over snd_buf;
\* a = [k, st, change, lost], i the position in snd_buf
flush_data(a, i, wnd, resent, rtomin) ==
    IF i > Len(a.k.snd_buf) THEN a
    ELSE LET k == a.k
             d == flush_decide(k, k.snd_buf[i], resent, rtomin)
             needsend == d.kind # "none"
             seg == IF needsend
                    THEN [d.seg EXCEPT !.ts = k.current, !.wnd = wnd,
                                       !.una = k.rcv_nxt]
                    ELSE d.seg
             k1 == [k EXCEPT !.snd_buf[i] = seg,
                             !.xmit = IF d.kind = "timeout" THEN u32(@ + 1) ELSE @,
                             !.state = IF needsend THEN flush_dead(k, seg) ELSE @]
         IN flush_data([ k |-> k1,
                         st |-> IF needsend THEN stage_seg(a.st, seg, k.mtu)
                                ELSE a.st,
                         change |-> IF d.kind = "fast" THEN a.change + 1
                                    ELSE a.change,
                         lost |-> IF d.kind = "timeout" THEN 1 ELSE a.lost ],
                       i + 1, wnd, resent, rtomin)

\* a variant of flush_congestion in which a fast retransmit overrides a loss
flush_congestion_change_last(k, change, lost, cwnd, resent) ==
    LET inflight == u32(k.snd_nxt - k.snd_una)
        k1 == IF lost # 0
              THEN [k EXCEPT !.ssthresh = Max(cwnd \div 2, IKCP_THRESH_MIN),
                             !.cwnd = 1, !.incr = k.mss]
              ELSE k
        k2 == IF change # 0
              THEN LET ss == Max(inflight \div 2, IKCP_THRESH_MIN)
                   IN [k1 EXCEPT !.ssthresh = ss, !.cwnd = u32(ss + resent),
                                 !.incr = u32(u32(ss + resent) * k.mss)]
              ELSE k1
    IN IF k2.cwnd < 1 THEN [k2 EXCEPT !.cwnd = 1, !.incr = k.mss] ELSE k2
\* a variant of flush_congestion without the cwnd floor
flush_congestion_bare(k, change, lost, cwnd, resent) ==
    LET inflight == u32(k.snd_nxt - k.snd_una)
        k1 == IF change # 0
              THEN LET ss == Max(inflight \div 2, IKCP_THRESH_MIN)
                   IN [k EXCEPT !.ssthresh = ss, !.cwnd = u32(ss + resent),
                                !.incr = u32(u32(ss + resent) * k.mss)]
              ELSE k
    IN IF lost # 0
       THEN [k1 EXCEPT !.ssthresh = Max(cwnd \div 2, IKCP_THRESH_MIN),
                       !.cwnd = 1, !.incr = k.mss]
       ELSE k1
\* "update ssthresh" and the cwnd floor at the end of flush
flush_congestion(k, change, lost, cwnd, resent) ==
    LET inflight == u32(k.snd_nxt - k.snd_una)
        k1 == IF change # 0
              THEN LET ss == Max(inflight \div 2, IKCP_THRESH_MIN)
                   IN [k EXCEPT !.ssthresh = ss, !.cwnd = u32(ss + resent),
                                !.incr = u32(u32(ss + resent) * k.mss)]
              ELSE k
        k2 == IF lost # 0
              THEN [k1 EXCEPT !.ssthresh = Max(cwnd \div 2, IKCP_THRESH_MIN),
                              !.cwnd = 1, !.incr = k.mss]
              ELSE k1
    IN IF k2.cwnd < 1 THEN [k2 EXCEPT !.cwnd = 1, !.incr = k.mss] ELSE k2

\* kcp::flush(): [k |-> the control block afterwards,
\*                outs |-> the datagrams given to the output callback, in order]
flush(k) ==
    IF k.updated = 0 THEN [k |-> k, outs |-> <<>>]
    ELSE LET seg == [ conv |-> k.conv, cmd |-> IKCP_CMD_ACK, frg |-> 0,
                      wnd |-> window_unused(k), una |-> k.rcv_nxt,
                      sn |-> 0, ts |-> 0, data |-> <<>> ]
             st1 == flush_acks(k, [stage |-> <<>>, outs |-> <<>>], seg, 1)
             k1 == flush_probe([k EXCEPT !.acklist = <<>>])
             st2 == flush_probe_cmds(k1, st1, seg)
             k2 == [k1 EXCEPT !.probe = 0]
             cwnd == flush_cwnd(k2)
             k3 == flush_move(k2, cwnd, seg.wnd)
             resent == IF k3.fastresend > 0 THEN k3.fastresend ELSE ALL_ONES
             rtomin == IF k3.nodelay = 0 THEN k3.rx_rto \div 8 ELSE 0
             a == flush_data([k |-> k3, st |-> st2, change |-> 0, lost |-> 0],
                             1, seg.wnd, resent, rtomin)
             st3 == kcp_output(a.st)
         IN [ k |-> flush_congestion(a.k, a.change, a.lost, cwnd, resent),
              outs |-> st3.outs ]

-----------------------------------------------------------------------------
(* Timer driver and configuration *)

\* a variant of update that flushes one millisecond before ts_flush
update_early(k, current) ==
    LET k1 == IF k.updated = 0
              THEN [k EXCEPT !.current = current, !.updated = 1,
                             !.ts_flush = current]
              ELSE [k EXCEPT !.current = current]
        slap0 == i32(_itimediff(k1.current, k1.ts_flush))
        reset == slap0 >= 10000 \/ slap0 < -10000
        k2 == IF reset THEN [k1 EXCEPT !.ts_flush = k1.current] ELSE k1
        slap == IF reset THEN 0 ELSE slap0
        ts1 == u32(k2.ts_flush + k2.interval)
        k3 == [k2 EXCEPT !.ts_flush = IF _itimediff(k2.current, ts1) >= 0
                                      THEN u32(k2.current + k2.interval)
                                      ELSE ts1]
    IN IF slap >= -1
       THEN [k |-> flush(k3).k, outs |-> flush(k3).outs, flushed |-> TRUE]
       ELSE [k |-> k2, outs |-> <<>>, flushed |-> FALSE]
\* kcp::update(current): [k, outs, flushed]
update(k, current) ==
    LET k1 == IF k.updated = 0
              THEN [k EXCEPT !.current = current, !.updated = 1,
                             !.ts_flush = current]
              ELSE [k EXCEPT !.current = current]
        slap0 == i32(_itimediff(k1.current, k1.ts_flush))
        reset == slap0 >= 10000 \/ slap0 < -10000
        k2 == IF reset THEN [k1 EXCEPT !.ts_flush = k1.current] ELSE k1
        slap == IF reset THEN 0 ELSE slap0
        ts1 == u32(k2.ts_flush + k2.interval)
        k3 == [k2 EXCEPT !.ts_flush = IF _itimediff(k2.current, ts1) >= 0
                                      THEN u32(k2.current + k2.interval)
                                      ELSE ts1]
    IN IF slap >= 0
       THEN [k |-> flush(k3).k, outs |-> flush(k3).outs, flushed |-> TRUE]
       ELSE [k |-> k2, outs |-> <<>>, flushed |-> FALSE]

RECURSIVE check_packets(_, _, _, _)
\* the loop of kcp::check over snd_buf: 0 when some resendts has passed,
\* otherwise the smallest distance (tm_packet)
check_packets(buf, i, current, tm_packet) ==
    IF i > Len(buf) THEN tm_packet
    ELSE LET diff == i32(_itimediff(buf[i].resendts, current))
         IN IF diff <= 0 THEN 0
            ELSE check_packets(buf, i + 1, current,
                               IF diff < tm_packet THEN diff ELSE tm_packet)

\* kcp::check(current)
check(k, current) ==
    LET ts_flush == IF \/ _itimediff(current, k.ts_flush) >= 10000
                       \/ _itimediff(current, k.ts_flush) < -10000
                    THEN current ELSE k.ts_flush
        tm_flush == i32(_itimediff(ts_flush, current))
        tm_packet == check_packets(k.snd_buf, 1, current, UINT32 \div 2 - 1)
        minimal == u32(IF tm_packet < tm_flush THEN tm_packet ELSE tm_flush)
    IN IF k.updated = 0 THEN current
       ELSE IF _itimediff(current, ts_flush) >= 0 THEN current
       ELSE IF tm_packet = 0 THEN current
       ELSE u32(current + (IF minimal >= k.interval THEN k.interval ELSE minimal))

\* kcp::set_mtu(mtu): [k, ret]
set_mtu(k, mtu) ==
    IF mtu < 50 \/ mtu < IKCP_OVERHEAD THEN [k |-> k, ret |-> -1]
    ELSE IF k.mtu = mtu THEN [k |-> k, ret |-> 0]
    ELSE [k |-> [k EXCEPT !.mtu = mtu, !.mss = mtu - IKCP_OVERHEAD], ret |-> 0]

\* the clamp of an interval to [10, 5000] in get_interval and no_delay
clamp_interval(interval) ==
    IF interval > 5000 THEN 5000 ELSE IF interval < 10 THEN 10 ELSE interval

\* kcp::get_interval(interval), which sets the interval
get_interval(k, interval) == [k EXCEPT !.interval = clamp_interval(interval)]

\* kcp::no_delay(nodelay, interval, resend, nc)
no_delay(k, nodelay, interval, resend, nc) ==
    LET k1 == IF nodelay >= 0
              THEN [k EXCEPT !.nodelay = nodelay,
                             !.rx_minrto = IF nodelay # 0 THEN IKCP_RTO_NDL
                                           ELSE IKCP_RTO_MIN]
              ELSE k
        k2 == IF interval >= 0
              THEN [k1 EXCEPT !.interval = clamp_interval(interval)] ELSE k1
        k3 == IF resend >= 0 THEN [k2 EXCEPT !.fastresend = resend] ELSE k2
    IN IF nc >= 0 THEN [k3 EXCEPT !.nocwnd = nc] ELSE k3

\* kcp::set_window_size(sndwnd, rcvwnd)
set_window_size(k, sndwnd, rcvwnd) ==
    LET k1 == IF sndwnd > 0 THEN [k EXCEPT !.snd_wnd = sndwnd] ELSE k
    IN IF rcvwnd > 0 THEN [k1 EXCEPT !.rcv_wnd = Max(rcvwnd, IKCP_WND_RCV)]
       ELSE k1

\* kcp::set_stream_mode(enable)
set_stream_mode(k, enable) == [k EXCEPT !.stream = IF enable THEN 1 ELSE 0]

-----------------------------------------------------------------------------
(* The environment of one control block: what the application and the      *)
(* network may hand to its public operations.                               *)

CONV == 1
NoPeer == <<>>

\* Bounds of the exploration: how many operations of each kind a run holds
MaxSend == 2
MaxRecv == 1
MaxInput == 2
MaxTick == 3
MaxMisc == 1
MaxConf == 2
MaxDeliver == 3
MaxLoss == 1

\* a segment as the environment puts it on the wire
Wire(conv, cmd, frg, wnd, ts, sn, una, data) ==
    [ conv |-> conv, cmd |-> cmd, frg |-> frg, wnd |-> wnd, ts |-> ts,
      sn |-> sn, una |-> una, len |-> Len(data), data |-> data ]

Dgram(ws) == [segs |-> ws, trail |-> 0]

\* ACKs: for the head of snd_buf by una, for a later sn, with a closed
\* window, and for a sn below snd_una across the wrap
EnvAcks(k) ==
    { Wire(CONV, IKCP_CMD_ACK, 0, p[3], k.current, p[1], p[2], <<>>) :
        p \in { <<0, 1, IKCP_WND_RCV>>, <<1, 0, IKCP_WND_RCV>>,
                <<0, 0, 0>>, <<ALL_ONES, 0, IKCP_WND_RCV>> } }
\* PUSHes with the given sequence numbers
EnvPushes(k, sns) ==
    { Wire(CONV, IKCP_CMD_PUSH, frg, IKCP_WND_RCV, k.current, sn, 0,
           Payload(50 + (sn % 7), 2)) :
        frg \in {0, 1}, sn \in sns }
EnvCtl(k) ==
    { Wire(CONV, IKCP_CMD_WASK, 0, IKCP_WND_RCV, k.current, 0, 0, <<>>),
      Wire(CONV, IKCP_CMD_WINS, 0, 0, k.current, 0, 0, <<>>) }
\* segments input rejects: another conv, an unknown cmd, a len beyond the end
EnvBad(k) ==
    { Wire(CONV + 1, IKCP_CMD_ACK, 0, 0, k.current, 0, 1, <<>>),
      Wire(CONV, 99, 0, 0, k.current, 0, 1, <<>>),
      [Wire(CONV, IKCP_CMD_ACK, 0, 0, k.current, 0, 1, <<>>) EXCEPT !.len = 7] }

\* the datagrams given to input in Spec
EnvDatagrams(k) ==
    { Dgram(<<w>>) : w \in EnvAcks(k) \cup EnvCtl(k) }
    \cup { Dgram(<<Wire(CONV, IKCP_CMD_ACK, 0, 0, k.current, 1, 0, <<>>), w>>) :
             w \in EnvBad(k)
                   \cup {Wire(CONV, IKCP_CMD_ACK, 0, IKCP_WND_RCV, k.current, 2, 0, <<>>)} }
    \cup { Dgram(<<Wire(CONV, IKCP_CMD_PUSH, 0, IKCP_WND_RCV, k.current, 0, 0,
                        Payload(50, 2))>>) }

Quiet == /\ peer' = peer /\ a2b' = a2b /\ b2a' = b2a
         /\ sent' = sent /\ rcvd' = rcvd /\ long_bits' = long_bits

Init ==
    /\ long_bits \in {32, 64}
    /\ kcb = NewKcp(CONV)
    /\ peer = NoPeer
    /\ a2b = {} /\ b2a = {}
    /\ outs = <<>>
    /\ ret = [op |-> "new", code |-> 0]
    /\ sent = <<>> /\ rcvd = <<>>
    /\ hist = [send |-> 0, recv |-> 0, input |-> 0, tick |-> 0, misc |-> 0,
               conf |-> 0, peer |-> 0, wmax |-> IKCP_WND_RCV]

DoSend(lens) ==
    /\ hist.send < MaxSend
    /\ \E len \in lens :
         LET r == send(kcb, Payload(hist.send + 1, len))
         IN /\ kcb' = r.k
            /\ ret' = [op |-> "send", code |-> r.ret]
    /\ outs' = <<>>
    /\ hist' = [hist EXCEPT !.send = @ + 1]
    /\ Quiet

DoReceive(lens) ==
    /\ hist.recv < MaxRecv
    /\ \E len \in lens :
         LET r == receive(kcb, len)
         IN /\ kcb' = r.k
            /\ ret' = [op |-> "receive", code |-> r.ret]
    /\ outs' = <<>>
    /\ hist' = [hist EXCEPT !.recv = @ + 1]
    /\ Quiet

DoInput(dgrams) ==
    /\ hist.input < MaxInput
    /\ \E d \in dgrams :
         LET r == input(kcb, d)
         IN /\ kcb' = r.k
            /\ ret' = [op |-> "input", code |-> r.ret]
    /\ outs' = <<>>
    /\ hist' = [hist EXCEPT !.input = @ + 1]
    /\ Quiet

DoFlush ==
    /\ hist.tick < MaxTick
    /\ LET r == flush(kcb)
       IN /\ kcb' = r.k
          /\ outs' = r.outs
          /\ ret' = [op |-> "flush", code |-> 0]
    /\ hist' = [hist EXCEPT !.tick = @ + 1]
    /\ Quiet

DoUpdate(starts, steps) ==
    /\ hist.tick < MaxTick
    /\ \E t \in IF kcb.updated = 0 THEN starts
                ELSE {u32(kcb.current + dt) : dt \in steps} :
         LET r == update(kcb, t)
         IN /\ kcb' = r.k
            /\ outs' = r.outs
            /\ ret' = [op |-> IF r.flushed THEN "update" ELSE "update_idle",
                       code |-> 0]
    /\ hist' = [hist EXCEPT !.tick = @ + 1]
    /\ Quiet

\* a configuration call is counted among the mixed calls (kind "misc") or
\* among the calls that set an endpoint up (kind "conf")
Budget(kind) == IF kind = "conf" THEN MaxConf ELSE MaxMisc

DoSetMtu(mtus, kind) ==
    /\ hist[kind] < Budget(kind)
    /\ \E m \in mtus :
         LET r == set_mtu(kcb, m)
         IN /\ kcb' = r.k
            /\ ret' = [op |-> "set_mtu", code |-> r.ret]
    /\ outs' = <<>>
    /\ hist' = [hist EXCEPT ![kind] = @ + 1]
    /\ Quiet

DoSetWindowSize(wnds, kind) ==
    /\ hist[kind] < Budget(kind)
    /\ \E w \in wnds :
         /\ kcb' = set_window_size(kcb, w[1], w[2])
         /\ ret' = [op |-> "set_window_size", code |-> 0]
         /\ hist' = [hist EXCEPT ![kind] = @ + 1,
                                 !.wmax = Max(@, set_window_size(kcb, w[1], w[2]).rcv_wnd)]
    /\ outs' = <<>>
    /\ Quiet

DoNoDelay(args, kind) ==
    /\ hist[kind] < Budget(kind)
    /\ \E a \in args :
         /\ kcb' = no_delay(kcb, a[1], a[2], a[3], a[4])
         /\ ret' = [op |-> "no_delay", code |-> 0]
    /\ outs' = <<>>
    /\ hist' = [hist EXCEPT ![kind] = @ + 1]
    /\ Quiet

DoSetInterval(intervals) ==
    /\ hist.misc < MaxMisc
    /\ \E i \in intervals :
         /\ kcb' = get_interval(kcb, i)
         /\ ret' = [op |-> "get_interval", code |-> 0]
    /\ outs' = <<>>
    /\ hist' = [hist EXCEPT !.misc = @ + 1]
    /\ Quiet

DoSetStreamMode(modes) ==
    /\ hist.misc < MaxMisc
    /\ \E b \in modes :
         /\ kcb' = set_stream_mode(kcb, b)
         /\ ret' = [op |-> "set_stream_mode", code |-> 0]
    /\ outs' = <<>>
    /\ hist' = [hist EXCEPT !.misc = @ + 1]
    /\ Quiet

-----------------------------------------------------------------------------
(* Spec: every public operation, with the sender side explored in depth *)

Send == DoSend({5, 30})
Receive == DoReceive({100})
Input == DoInput(EnvDatagrams(kcb))
Update == DoUpdate({0}, {100, 7000})
SetMtu == DoSetMtu({50}, "misc")
SetWindowSize == DoSetWindowSize({<<1, 0>>}, "misc")
NoDelay == DoNoDelay({<<1, -1, 1, 1>>}, "misc")
SetInterval == DoSetInterval({7000})
SetStreamMode == DoSetStreamMode({TRUE})

Next ==
    \/ Send \/ Receive \/ Input \/ DoFlush \/ Update
    \/ SetMtu \/ SetWindowSize \/ NoDelay \/ SetInterval \/ SetStreamMode

Spec == Init /\ [][Next]_vars

-----------------------------------------------------------------------------
(* SpecRcv: every public operation, with the receive side explored in depth *)

\* the datagrams given to input in SpecRcv: PUSHes at rcv_nxt, ahead of it,
\* beyond the default window, beyond every window and below rcv_nxt across
\* the wrap; two PUSHes out of order in one datagram; a PUSH before a
\* segment that input rejects
RcvDatagrams(k) ==
    { Dgram(<<w>>) :
        w \in EnvPushes(k, {0, 1, IKCP_WND_RCV + 1, 4 * IKCP_WND_RCV, ALL_ONES}) }
    \cup { Dgram(<<Wire(CONV, IKCP_CMD_PUSH, 1, IKCP_WND_RCV, k.current, 1, 0, Payload(51, 2)),
                   w>>) :
             w \in {Wire(CONV, IKCP_CMD_PUSH, 0, IKCP_WND_RCV, k.current, 0, 0, Payload(50, 2)),
                    Wire(CONV, 99, 0, 0, k.current, 0, 1, <<>>)} }

RcvSend == DoSend({5})
RcvReceive == DoReceive({-100, 1, 100})
RcvInput == DoInput(RcvDatagrams(kcb))
RcvUpdate == DoUpdate({0}, {100})
RcvSetWindowSize == DoSetWindowSize({<<0, 2 * IKCP_WND_RCV>>, <<0, 1>>}, "conf")
RcvSetMtu == DoSetMtu({50}, "misc")

NextRcv ==
    \/ RcvSend \/ RcvReceive \/ RcvInput \/ DoFlush \/ RcvUpdate
    \/ RcvSetWindowSize \/ RcvSetMtu

SpecRcv == Init /\ [][NextRcv]_vars

-----------------------------------------------------------------------------
(* SpecNet: endpoint A (kcb) and endpoint B (peer) with the same conv, joined
   by a channel that loses, duplicates and reorders whole datagrams.  A
   datagram given to the output callback joins the set a2b or b2a and stays
   there: it may be delivered never, once or again, in any order. *)

Range(s) == {s[i] : i \in 1..Len(s)}

InitNet ==
    /\ long_bits \in {32, 64}
    /\ kcb = NewKcp(CONV)
    /\ peer = NewKcp(CONV)
    /\ a2b = {} /\ b2a = {}
    /\ outs = <<>>
    /\ ret = [op |-> "new", code |-> 0]
    /\ sent = <<>> /\ rcvd = <<>>
    /\ hist = [send |-> 0, recv |-> 0, input |-> 0, tick |-> 0, misc |-> 0,
               conf |-> 0, peer |-> 0, wmax |-> IKCP_WND_RCV]

\* A.send of a fresh payload; sent records the payloads of the calls that
\* returned 0
NetSend ==
    /\ hist.send < MaxSend
    /\ \E len \in {5, 40} :
         LET r == send(kcb, Payload(hist.send + 1, len))
         IN /\ kcb' = r.k
            /\ ret' = [op |-> "send", code |-> r.ret]
            /\ sent' = IF r.ret = 0 THEN Append(sent, Payload(hist.send + 1, len))
                       ELSE sent
    /\ outs' = <<>>
    /\ hist' = [hist EXCEPT !.send = @ + 1]
    /\ UNCHANGED <<long_bits, peer, a2b, b2a, rcvd>>


\* A.update at the next 100 ms tick
NetTickA ==
    /\ hist.tick < MaxTick
    /\ LET t == IF kcb.updated = 0 THEN 0 ELSE u32(kcb.current + 100)
           r == update(kcb, t)
       IN /\ kcb' = r.k
          /\ outs' = r.outs
          /\ a2b' = a2b \cup Range(r.outs)
          /\ ret' = [op |-> "update", code |-> 0]
    /\ hist' = [hist EXCEPT !.tick = @ + 1]
    /\ UNCHANGED <<long_bits, peer, b2a, sent, rcvd>>

\* B.update at the next 100 ms tick
NetTickB ==
    /\ hist.peer < MaxMisc
    /\ LET t == IF peer.updated = 0 THEN 0 ELSE u32(peer.current + 100)
           r == update(peer, t)
       IN /\ peer' = r.k
          /\ outs' = r.outs
          /\ b2a' = b2a \cup Range(r.outs)
          /\ ret' = [op |-> "peer_update", code |-> 0]
    /\ hist' = [hist EXCEPT !.peer = @ + 1]
    /\ UNCHANGED <<long_bits, kcb, a2b, sent, rcvd>>

\* the channel delivers some datagram of a2b to B.input
NetInputB ==
    /\ hist.input < MaxDeliver
    /\ \E d \in a2b :
         LET r == input(peer, d)
         IN /\ peer' = r.k
            /\ ret' = [op |-> "peer_input", code |-> r.ret]
    /\ outs' = <<>>
    /\ hist' = [hist EXCEPT !.input = @ + 1]
    /\ UNCHANGED <<long_bits, kcb, a2b, b2a, sent, rcvd>>

\* the channel delivers some datagram of b2a to A.input
NetInputA ==
    /\ hist.misc < MaxMisc
    /\ \E d \in b2a :
         LET r == input(kcb, d)
         IN /\ kcb' = r.k
            /\ ret' = [op |-> "input", code |-> r.ret]
    /\ outs' = <<>>
    /\ hist' = [hist EXCEPT !.misc = @ + 1]
    /\ UNCHANGED <<long_bits, peer, a2b, b2a, sent, rcvd>>

\* B.receive into a buffer of 100 bytes, or a peek (len < 0); rcvd records
\* the payloads of the consuming calls that returned a size
NetReceive ==
    /\ hist.recv < MaxSend
    /\ \E len \in {-100, 100} :
         LET r == receive(peer, len)
         IN /\ peer' = r.k
            /\ ret' = [op |-> IF len < 0 THEN "peer_peek" ELSE "peer_receive",
                       code |-> r.ret]
            /\ rcvd' = IF len > 0 /\ r.ret > 0 THEN Append(rcvd, r.data) ELSE rcvd
    /\ outs' = <<>>
    /\ hist' = [hist EXCEPT !.recv = @ + 1]
    /\ UNCHANGED <<long_bits, kcb, a2b, b2a, sent>>

NextNet ==
    \/ NetSend \/ DoSetMtu({60}, "conf") \/ DoNoDelay({<<0, -1, 0, 1>>}, "conf")
    \/ NetTickA \/ NetTickB
    \/ NetInputB \/ NetInputA \/ NetReceive

SpecNet == InitNet /\ [][NextNet]_vars

\* all segments of the datagrams ds, in the order given to the callback
RECURSIVE AllSegs(_)
AllSegs(ds) == IF ds = <<>> THEN <<>> ELSE Head(ds).segs \o AllSegs(Tail(ds))
\* the segments with command cmd among them
SegsOf(ds, cmd) == SelectSeq(AllSegs(ds), LAMBDA w : w.cmd = cmd)

-----------------------------------------------------------------------------
(* The round driver of SpecLink and SpecWin: endpoint A (kcb) and endpoint B
   (peer) joined by two FIFO channels a2b and b2a that keep the order of the
   datagrams and lose at most MaxLoss of them.  After A's sends the driver
   repeats rounds at a clock that advances by Step: A.update, the datagrams
   of a2b into B.input, B.update, the datagrams of b2a into A.input, then
   B.receive until it returns an error.  hist.pc is the driver's position. *)

Step == 10 * IKCP_INTERVAL
Now == u32(hist.round * Step)

InitRun ==
    /\ long_bits \in {32, 64}
    /\ kcb = NewKcp(CONV)
    /\ peer = NewKcp(CONV)
    /\ a2b = <<>> /\ b2a = <<>>
    /\ outs = <<>>
    /\ ret = [op |-> "new", code |-> 0]
    /\ sent = <<>> /\ rcvd = <<>>
    /\ hist = [pc |-> "setup", send |-> 0, round |-> 0, lost |-> 0,
               zero |-> FALSE, wask |-> 0]

\* a configuration call on A that takes the driver from pc from to pc to
RunConfig(k, op, from, to) ==
    /\ hist.pc = from
    /\ kcb' = k
    /\ ret' = [op |-> op, code |-> 0]
    /\ outs' = <<>>
    /\ hist' = [hist EXCEPT !.pc = to]
    /\ UNCHANGED <<long_bits, peer, a2b, b2a, sent, rcvd>>

\* A.send of total fresh payloads, each of a length in lens
RunSend(lens, total) ==
    /\ hist.pc = "send"
    /\ \E len \in lens :
         LET r == send(kcb, Payload(hist.send + 1, len))
         IN /\ kcb' = r.k
            /\ ret' = [op |-> "send", code |-> r.ret]
            /\ sent' = IF r.ret = 0 THEN Append(sent, Payload(hist.send + 1, len))
                       ELSE sent
    /\ outs' = <<>>
    /\ hist' = [hist EXCEPT !.send = @ + 1,
                            !.pc = IF hist.send + 1 = total THEN "a_tick" ELSE "send"]
    /\ UNCHANGED <<long_bits, peer, a2b, b2a, rcvd>>

RunTickA ==
    /\ hist.pc = "a_tick"
    /\ LET r == update(kcb, Now)
       IN /\ kcb' = r.k
          /\ outs' = r.outs
          /\ a2b' = a2b \o r.outs
          /\ ret' = [op |-> "update", code |-> 0]
          /\ hist' = [hist EXCEPT !.pc = "b_in",
                                  !.wask = @ + Len(SegsOf(r.outs, IKCP_CMD_WASK))]
    /\ UNCHANGED <<long_bits, peer, b2a, sent, rcvd>>

RunInputB ==
    /\ hist.pc = "b_in" /\ a2b # <<>>
    /\ LET r == input(peer, Head(a2b))
       IN /\ peer' = r.k
          /\ ret' = [op |-> "peer_input", code |-> r.ret]
    /\ a2b' = Tail(a2b)
    /\ outs' = <<>>
    /\ UNCHANGED <<long_bits, kcb, b2a, sent, rcvd, hist>>

RunLoseAB ==
    /\ hist.pc = "b_in" /\ a2b # <<>>
    /\ hist.lost < MaxLoss
    /\ a2b' = Tail(a2b)
    /\ ret' = [op |-> "lose", code |-> 0]
    /\ outs' = <<>>
    /\ hist' = [hist EXCEPT !.lost = @ + 1]
    /\ UNCHANGED <<long_bits, kcb, peer, b2a, sent, rcvd>>

RunTickB ==
    /\ hist.pc = "b_in" /\ a2b = <<>>
    /\ LET r == update(peer, Now)
       IN /\ peer' = r.k
          /\ outs' = r.outs
          /\ b2a' = b2a \o r.outs
          /\ ret' = [op |-> "peer_update", code |-> 0]
    /\ hist' = [hist EXCEPT !.pc = "a_in"]
    /\ UNCHANGED <<long_bits, kcb, a2b, sent, rcvd>>

\* hist.zero records that A has seen rmt_wnd = 0 with data left in snd_queue
RunInputA ==
    /\ hist.pc = "a_in" /\ b2a # <<>>
    /\ LET r == input(kcb, Head(b2a))
       IN /\ kcb' = r.k
          /\ ret' = [op |-> "input", code |-> r.ret]
          /\ hist' = [hist EXCEPT !.zero = @ \/ (r.k.rmt_wnd = 0 /\ r.k.snd_queue # <<>>)]
    /\ b2a' = Tail(b2a)
    /\ outs' = <<>>
    /\ UNCHANGED <<long_bits, peer, a2b, sent, rcvd>>

RunLoseBA ==
    /\ hist.pc = "a_in" /\ b2a # <<>>
    /\ hist.lost < MaxLoss
    /\ b2a' = Tail(b2a)
    /\ ret' = [op |-> "lose", code |-> 0]
    /\ outs' = <<>>
    /\ hist' = [hist EXCEPT !.lost = @ + 1]
    /\ UNCHANGED <<long_bits, kcb, peer, a2b, sent, rcvd>>

\* the end of a round: the clock advances, and the run is over after
\* the given number of rounds
NextRound(rounds) ==
    [hist EXCEPT !.round = @ + 1,
                 !.pc = IF hist.round + 1 >= rounds THEN "done" ELSE "a_tick"]

\* B.receive into a buffer of 100 bytes; an error return ends the round
RunReceive(rounds) ==
    /\ hist.pc = "a_in" /\ b2a = <<>>
    /\ LET r == receive(peer, 100)
       IN /\ peer' = r.k
          /\ ret' = [op |-> "peer_receive", code |-> r.ret]
          /\ rcvd' = IF r.ret >= 0 THEN Append(rcvd, r.data) ELSE rcvd
          /\ hist' = IF r.ret >= 0 THEN hist ELSE NextRound(rounds)
    /\ outs' = <<>>
    /\ UNCHANGED <<long_bits, kcb, a2b, b2a, sent>>

\* B's application leaves rcv_queue alone in this round
RunIdle(rounds) ==
    /\ hist.pc = "a_in" /\ b2a = <<>>
    /\ ret' = [op |-> "idle", code |-> 0]
    /\ outs' = <<>>
    /\ hist' = NextRound(rounds)
    /\ UNCHANGED <<long_bits, kcb, peer, a2b, b2a, sent, rcvd>>

-----------------------------------------------------------------------------
(* SpecLink: A sends MaxSend payloads in message mode or in stream mode, one
   of them cut in two segments at mtu 60 and one too long to be accepted;
   B's application receives in every round. *)

LinkMtu == 60
LinkRounds == 5 + 2 * MaxLoss
\* a length that needs IKCP_WND_RCV segments at mtu LinkMtu
LinkHuge == IKCP_WND_RCV * (LinkMtu - IKCP_OVERHEAD)

LinkSetMtu == RunConfig(set_mtu(kcb, LinkMtu).k, "set_mtu", "setup", "mode")
LinkSetStreamMode ==
    \E b \in BOOLEAN :
        RunConfig(set_stream_mode(kcb, b), "set_stream_mode", "mode", "send")
LinkSend == RunSend({5, 40, LinkHuge}, MaxSend)
LinkReceive == RunReceive(LinkRounds)

NextLink ==
    \/ LinkSetMtu \/ LinkSetStreamMode \/ LinkSend \/ RunTickA \/ RunInputB
    \/ RunLoseAB \/ RunTickB \/ RunInputA \/ RunLoseBA \/ LinkReceive

SpecLink == InitRun /\ [][NextLink]_vars

-----------------------------------------------------------------------------
(* SpecWin: A, with congestion control off and a send window of WinSnd
   segments, sends IKCP_WND_RCV + 2 one-byte messages; B's application
   leaves rcv_queue alone until A has seen rmt_wnd = 0 and receives in every
   round from then on. *)

WinMsgs == IKCP_WND_RCV + 2
WinRounds == 28 + 16 * MaxLoss

WinSnd == IKCP_WND_RCV \div 16
WinSetWindowSize ==
    RunConfig(set_window_size(kcb, WinSnd, 0), "set_window_size", "setup", "mode")
WinNoDelay == RunConfig(no_delay(kcb, 0, -1, 0, 1), "no_delay", "mode", "send")
WinSend == RunSend({1}, WinMsgs)
WinReceive == hist.zero /\ RunReceive(WinRounds)
WinIdle == ~hist.zero /\ RunIdle(WinRounds)

NextWin ==
    \/ WinSetWindowSize \/ WinNoDelay \/ WinSend \/ RunTickA \/ RunInputB
    \/ RunLoseAB \/ RunTickB \/ RunInputA \/ RunLoseBA \/ WinReceive \/ WinIdle

SpecWin == InitRun /\ [][NextWin]_vars

-----------------------------------------------------------------------------
(* Properties of the send side *)

\* the last operation ran the body of flush (update had been called)
Flushed == ret.op \in {"flush", "update"} /\ kcb.updated = 1

\* the invariant of snd_una, snd_nxt and snd_buf on the control block k
SndInv(k) ==
    /\ i32(k.snd_nxt - k.snd_una) >= 0
    /\ \A i \in 1..Len(k.snd_buf) :
         /\ i32(k.snd_buf[i].sn - k.snd_una) >= 0
         /\ i32(k.snd_buf[i].sn - k.snd_nxt) < 0
    /\ \A i \in 1..(Len(k.snd_buf) - 1) :
         i32(k.snd_buf[i + 1].sn - k.snd_buf[i].sn) > 0
    /\ k.snd_buf # <<>> => Head(k.snd_buf).sn = k.snd_una
    /\ k.snd_buf = <<>> => k.snd_una = k.snd_nxt

\* C4: after every public operation snd_una <= snd_nxt (signed difference),
\* snd_buf is strictly increasing in sn within [snd_una, snd_nxt), its head
\* has sn = snd_una, and snd_una = snd_nxt when it is empty.
C4_SndBufInvariant == SndInv(kcb)

\* an input call returned a negative code after an earlier segment of the
\* same datagram had removed a segment from the middle of snd_buf
C4_Witness ==
    /\ ret.op = "input" /\ ret.code < 0
    /\ Len(kcb.snd_buf) >= 1
    /\ u32(kcb.snd_nxt - kcb.snd_una) > Len(kcb.snd_buf)

\* C7 (as claimed): every datagram given to the output callback has at most
\* mtu bytes.
C7_OutputWithinMtu == \A i \in 1..Len(outs) : dgram_size(outs[i]) <= kcb.mtu

\* C8 (as claimed): a flush that runs while rmt_wnd = 0 passes no PUSH
\* segment to the output callback.
C8_NoPushAtZeroWindow ==
    (Flushed /\ kcb.rmt_wnd = 0) => SegsOf(outs, IKCP_CMD_PUSH) = <<>>

\* C8 (amended): a flush that runs while rmt_wnd = 0 moves nothing from
\* snd_queue to snd_buf and assigns no sequence number, so every PUSH it
\* emits retransmits a segment that was in snd_buf, and already transmitted,
\* before the flush.
C8_NoNewPushAtZeroWindow ==
    [][ (ret'.op \in {"flush", "update"} /\ kcb'.updated = 1 /\ kcb'.rmt_wnd = 0)
        => /\ kcb'.snd_nxt = kcb.snd_nxt
           /\ kcb'.snd_queue = kcb.snd_queue
           /\ LET pushes == SegsOf(outs', IKCP_CMD_PUSH)
              IN \A i \in 1..Len(pushes) :
                   \E j \in 1..Len(kcb.snd_buf) :
                     /\ kcb.snd_buf[j].sn = pushes[i].sn
                     /\ kcb.snd_buf[j].xmit >= 1 ]_vars

\* a flush at rmt_wnd = 0 retransmitted a segment while snd_queue held data
C8_Witness ==
    /\ Flushed /\ kcb.rmt_wnd = 0
    /\ SegsOf(outs, IKCP_CMD_PUSH) # <<>>
    /\ kcb.snd_queue # <<>>

\* the number of WASK segments in the datagrams ds
Wasks(ds) == Len(SegsOf(ds, IKCP_CMD_WASK))

\* C9 (as claimed): over the flushes that run while rmt_wnd = 0, the first
\* arms the probe timer at 7000 ms without a WASK, each later one at or after
\* ts_probe emits exactly one WASK and grows probe_wait by half up to 120000,
\* one before ts_probe emits no WASK; a flush with rmt_wnd > 0 disarms the
\* timer; probe is 0 after the flush.
C9_ProbeSchedule ==
    [][ (ret'.op \in {"flush", "update"} /\ kcb'.updated = 1)
        => LET now == kcb'.current
               pw == kcb.probe_wait
           IN /\ kcb'.probe = 0
              /\ kcb'.rmt_wnd > 0 => kcb'.probe_wait = 0 /\ kcb'.ts_probe = 0
              /\ (kcb'.rmt_wnd = 0 /\ pw = 0)
                   => /\ kcb'.probe_wait = IKCP_PROBE_INIT
                      /\ kcb'.ts_probe = u32(now + IKCP_PROBE_INIT)
                      /\ Wasks(outs') = 0
              /\ (kcb'.rmt_wnd = 0 /\ pw # 0 /\ i32(now - kcb.ts_probe) >= 0)
                   => /\ Wasks(outs') = 1
                      /\ kcb'.probe_wait = Min(pw + pw \div 2, IKCP_PROBE_LIMIT)
                      /\ kcb'.ts_probe = u32(now + kcb'.probe_wait)
              /\ (kcb'.rmt_wnd = 0 /\ pw # 0 /\ i32(now - kcb.ts_probe) < 0)
                   => /\ Wasks(outs') = 0
                      /\ kcb'.probe_wait = pw
                      /\ kcb'.ts_probe = kcb.ts_probe ]_vars

-----------------------------------------------------------------------------
(* Properties of the receive side *)

\* rcv_buf is strictly increasing in sn (so holds no sn twice) and holds no
\* sn below rcv_nxt
RcvBufOrdered(k) ==
    /\ \A i \in 1..(Len(k.rcv_buf) - 1) :
         i32(k.rcv_buf[i + 1].sn - k.rcv_buf[i].sn) > 0
    /\ \A i \in 1..Len(k.rcv_buf) : i32(k.rcv_buf[i].sn - k.rcv_nxt) >= 0

\* every sn of rcv_buf is below rcv_nxt + wnd
RcvBufBelow(k, wnd) ==
    \A i \in 1..Len(k.rcv_buf) : i32(k.rcv_buf[i].sn - u32(k.rcv_nxt + wnd)) < 0

\* C5 (as claimed): rcv_buf is strictly increasing in sn and every sn in it
\* lies in [rcv_nxt, rcv_nxt + rcv_wnd) for the current rcv_wnd.
C5_RcvBufInWindow == RcvBufOrdered(kcb) /\ RcvBufBelow(kcb, kcb.rcv_wnd)

\* C5 (amended): rcv_buf is strictly increasing in sn and every sn in it lies
\* in [rcv_nxt, rcv_nxt + W) where W is the largest rcv_wnd configured so far.
C5_RcvBufInLargestWindow == RcvBufOrdered(kcb) /\ RcvBufBelow(kcb, hist.wmax)

\* rcv_buf holds a segment admitted under a window that set_window_size has
\* lowered since
C5_Witness ==
    /\ kcb.rcv_buf # <<>>
    /\ kcb.rcv_wnd < hist.wmax
    /\ ~RcvBufBelow(kcb, kcb.rcv_wnd)

\* the sns of the segments of a queue
Sns(queue) == [i \in 1..Len(queue) |-> queue[i].sn]
\* the run of n consecutive sequence numbers that ends just below nxt
Run(nxt, n) == [i \in 1..n |-> u32(nxt - n + i - 1)]

\* C6: rcv_queue holds exactly the sns rcv_nxt - size .. rcv_nxt - 1, in
\* order; in every step rcv_nxt grows by the number of segments appended to
\* rcv_queue, each of them taken from rcv_buf or from the datagram, with an
\* sn at or above the old rcv_nxt, and what stays of the old queue is a
\* suffix of it.
C6_RcvQueueContiguous ==
    /\ [](Sns(kcb.rcv_queue) = Run(kcb.rcv_nxt, Len(kcb.rcv_queue)))
    /\ [][ LET moved == u32(kcb'.rcv_nxt - kcb.rcv_nxt)
               kept == Len(kcb'.rcv_queue) - moved
           IN /\ moved <= Len(kcb'.rcv_queue)
              /\ kept <= Len(kcb.rcv_queue)
              /\ SubSeq(kcb'.rcv_queue, 1, kept)
                   = SubSeq(kcb.rcv_queue, Len(kcb.rcv_queue) - kept + 1,
                            Len(kcb.rcv_queue))
              /\ \A i \in (kept + 1)..Len(kcb'.rcv_queue) :
                   kcb'.rcv_queue[i].sn = u32(kcb.rcv_nxt + i - kept - 1)
              /\ moved > 0 => ret'.op \in {"input", "receive"} ]_vars

\* one input moved two segments to rcv_queue, the held sn 1 behind sn 0
C6_Witness ==
    /\ ret.op = "input"
    /\ Len(kcb.rcv_queue) = 2 /\ kcb.rcv_nxt = 2
    /\ Len(kcb.acklist) = 2 /\ kcb.acklist[1][1] = 1

-----------------------------------------------------------------------------
(* Properties of two endpoints *)

\* C1: the messages returned by the consuming B.receive calls are, in order
\* and byte for byte, the first messages that A.send accepted.
C1_ReceivedIsPrefixOfSent ==
    /\ Len(rcvd) <= Len(sent)
    /\ \A i \in 1..Len(rcvd) : rcvd[i] = sent[i]

\* B returned two messages, one of them sent in two fragments, after the
\* datagram with the later sequence numbers had arrived first
C1_Witness ==
    /\ Len(rcvd) = 2 /\ rcvd = sent
    /\ \E i \in 1..2 : Len(rcvd[i]) > kcb.mss
    /\ \E i \in 1..Len(peer.acklist) : i > 1 /\ peer.acklist[i][1] = 0

-----------------------------------------------------------------------------
(* Properties of a driven run *)

RECURSIVE Flat(_)
\* the concatenation of a sequence of payloads
Flat(ps) == IF ps = <<>> THEN <<>> ELSE Head(ps) \o Flat(Tail(ps))

\* C2 (as claimed): when no datagram was lost, at the end of the run B has
\* returned what A.send accepted: in message mode the same payloads one by
\* one, in stream mode the same bytes in the same order.
C2_LosslessDelivery ==
    (hist.pc = "done" /\ hist.lost = 0)
      => IF kcb.stream = 0 THEN rcvd = sent ELSE Flat(rcvd) = Flat(sent)

\* C3 (as claimed): with at most MaxLoss datagrams lost, at the end of the
\* run every message accepted by A.send in message mode has been returned by
\* B.receive, in order.
C3_LossyDelivery ==
    (hist.pc = "done" /\ kcb.stream = 0) => rcvd = sent

\* C10 (as claimed): once A has seen rmt_wnd = 0 with data left in snd_queue
\* and B's application has drained rcv_queue, A has emitted a WASK by the end
\* of the run, its rmt_wnd is positive and every message has reached B.
C10_RecoveryByWask ==
    (hist.pc = "done" /\ hist.zero)
      => /\ hist.wask > 0
         /\ kcb.rmt_wnd > 0
         /\ kcb.snd_queue = <<>>
         /\ rcvd = sent

\* C10 (amended): once A has seen rmt_wnd = 0 with data left in snd_queue and
\* B's application has drained rcv_queue, by the end of the run A's rmt_wnd
\* is positive, snd_queue is empty and every message has reached B, with or
\* without a WASK; A emits a WASK only in a flush at or after ts_probe with
\* rmt_wnd = 0; and B answers a WASK in its next flush with a WINS that
\* advertises wnd > 0.
C10_Recovery ==
    /\ []((hist.pc = "done" /\ hist.zero)
            => kcb.rmt_wnd > 0 /\ kcb.snd_queue = <<>> /\ rcvd = sent)
    /\ [][ (ret'.op = "update" /\ SegsOf(outs', IKCP_CMD_WASK) # <<>>)
           => /\ kcb'.rmt_wnd = 0
              /\ kcb.probe_wait > 0
              /\ i32(kcb'.current - kcb.ts_probe) >= 0 ]_vars
    /\ [][ (ret'.op = "peer_update" /\ hist.zero
            /\ (peer.probe \div IKCP_ASK_TELL) % 2 = 1)
           => LET wins == SegsOf(outs', IKCP_CMD_WINS)
              IN Len(wins) = 1 /\ wins[1].wnd > 0 ]_vars

\* the WINS that followed B's receive was lost, A probed with a WASK, and
\* at the end every message has reached B
C10_Witness ==
    /\ hist.pc = "done" /\ hist.zero
    /\ hist.lost > 0 /\ hist.wask > 0
    /\ kcb.rmt_wnd > 0 /\ kcb.snd_queue = <<>>
    /\ Len(rcvd) = WinMsgs /\ rcvd = sent

-----------------------------------------------------------------------------
(* SpecFast: A, with congestion control off and fastresend = k, sends
   FastMsgs one-segment messages and transmits them in its first update.
   The segment with sn 0 is never acknowledged; ACKs for the later sns reach
   A.input one or two to a datagram, between flushes and updates.
   hist.acked is the set of sns whose ACK was given to input, hist.calls the
   largest ACK sn of each input call, in order. *)

FastMsgs == 4
MaxAckIn == 3

\* the datagrams of ACKs for sns: all with una = 0, wnd = IKCP_WND_RCV and
\* the ts of the first transmission
AckDgram(sns) ==
    Dgram([i \in 1..Len(sns) |->
             Wire(CONV, IKCP_CMD_ACK, 0, IKCP_WND_RCV, 0, sns[i], 0, <<>>)])
FastAcks == {<<1>>, <<2>>, <<3>>, <<1, 2>>, <<3, 2>>}

\* the largest element of a non-empty sequence of naturals
RECURSIVE SeqMax(_)
SeqMax(s) == IF Len(s) = 1 THEN s[1] ELSE Max(Head(s), SeqMax(Tail(s)))

InitFast ==
    /\ long_bits \in {32, 64}
    /\ kcb = NewKcp(CONV)
    /\ peer = NoPeer
    /\ a2b = {} /\ b2a = {}
    /\ outs = <<>>
    /\ ret = [op |-> "new", code |-> 0]
    /\ sent = <<>> /\ rcvd = <<>>
    /\ hist = [pc |-> "setup", send |-> 0, input |-> 0, tick |-> 0,
               acked |-> {}, calls |-> <<>>]

FastNoDelay ==
    /\ hist.pc = "setup"
    /\ \E resend \in {1, 2} : kcb' = no_delay(kcb, 1, -1, resend, 1)
    /\ ret' = [op |-> "no_delay", code |-> 0]
    /\ outs' = <<>>
    /\ hist' = [hist EXCEPT !.pc = "send"]
    /\ Quiet

FastSend ==
    /\ hist.pc = "send"
    /\ LET r == send(kcb, Payload(hist.send + 1, 3))
       IN /\ kcb' = r.k
          /\ ret' = [op |-> "send", code |-> r.ret]
    /\ outs' = <<>>
    /\ hist' = [hist EXCEPT !.send = @ + 1,
                            !.pc = IF hist.send + 1 = FastMsgs THEN "first" ELSE "send"]
    /\ Quiet

\* the first update, at time 0, transmits every segment
FastFirst ==
    /\ hist.pc = "first"
    /\ LET r == update(kcb, 0)
       IN /\ kcb' = r.k
          /\ outs' = r.outs
          /\ ret' = [op |-> "update", code |-> 0]
    /\ hist' = [hist EXCEPT !.pc = "run"]
    /\ Quiet

FastInput ==
    /\ hist.pc = "run" /\ hist.input < MaxAckIn
    /\ \E sns \in FastAcks :
         LET r == input(kcb, AckDgram(sns))
         IN /\ kcb' = r.k
            /\ ret' = [op |-> "input", code |-> r.ret]
            /\ hist' = [hist EXCEPT !.input = @ + 1,
                                    !.acked = @ \cup Range(sns),
                                    !.calls = Append(@, SeqMax(sns))]
    /\ outs' = <<>>
    /\ Quiet

FastFlush ==
    /\ hist.pc = "run" /\ hist.tick < MaxTick
    /\ LET r == flush(kcb)
       IN /\ kcb' = r.k
          /\ outs' = r.outs
          /\ ret' = [op |-> "flush", code |-> 0]
    /\ hist' = [hist EXCEPT !.tick = @ + 1]
    /\ Quiet

FastUpdate ==
    /\ hist.pc = "run" /\ hist.tick < MaxTick
    /\ LET r == update(kcb, u32(kcb.current + IKCP_INTERVAL))
       IN /\ kcb' = r.k
          /\ outs' = r.outs
          /\ ret' = [op |-> "update", code |-> 0]
    /\ hist' = [hist EXCEPT !.tick = @ + 1]
    /\ Quiet

NextFast ==
    \/ FastNoDelay \/ FastSend \/ FastFirst \/ FastInput \/ FastFlush \/ FastUpdate

SpecFast == InitFast /\ [][NextFast]_vars

-----------------------------------------------------------------------------
(* Properties of fast retransmission *)

\* the number of distinct sns above sn whose ACK was given to input
LaterAcked(sn) == Cardinality({a \in hist.acked : a > sn})
\* the number of input calls whose largest ACK sn was above sn
LaterCalls(sn) ==
    Cardinality({i \in 1..Len(hist.calls) : hist.calls[i] > sn})
\* the flush of this step sent the segment with sequence number sn
Pushed(ds, sn) == \E i \in 1..Len(SegsOf(ds, IKCP_CMD_PUSH)) :
                    SegsOf(ds, IKCP_CMD_PUSH)[i].sn = sn

-----------------------------------------------------------------------------
(* SpecDead: one control block whose segments are never or late
   acknowledged.  The clock moves by one interval or to the next resendts of
   snd_buf, so that a segment is retransmitted by timeout again and again.
   hist.tx[sn] is the number of PUSH segments with that sn among the
   datagrams given to the output callback so far. *)

DeadSends == 2
DeadTicks == 21
DeadSmall == 2
\* the application and the network act while fewer than DeadEarly or at
\* least DeadLate timeouts have passed
DeadEarly == 2
DeadLate == 18

InitDead ==
    /\ long_bits \in {32, 64}
    /\ kcb = NewKcp(CONV)
    /\ peer = NoPeer
    /\ a2b = {} /\ b2a = {}
    /\ outs = <<>>
    /\ ret = [op |-> "new", code |-> 0]
    /\ sent = <<>> /\ rcvd = <<>>
    /\ hist = [send |-> 0, tick |-> 0, small |-> 0, input |-> 0, recv |-> 0,
               conf |-> 0, tx |-> [sn \in 0..(DeadSends - 1) |-> 0]]

DeadPhase == hist.tick < DeadEarly \/ hist.tick >= DeadLate

\* the number of PUSH segments with sequence number sn in the datagrams ds
PushCount(ds, sn) ==
    Len(SelectSeq(SegsOf(ds, IKCP_CMD_PUSH), LAMBDA w : w.sn = sn))

DeadSend ==
    /\ hist.send < DeadSends /\ DeadPhase
    /\ LET r == send(kcb, Payload(hist.send + 1, 3))
       IN /\ kcb' = r.k
          /\ ret' = [op |-> "send", code |-> r.ret]
    /\ outs' = <<>>
    /\ hist' = [hist EXCEPT !.send = @ + 1]
    /\ Quiet

DeadNoDelay ==
    /\ hist.conf < MaxMisc /\ kcb.updated = 0
    /\ kcb' = no_delay(kcb, 1, -1, 0, 1)
    /\ ret' = [op |-> "no_delay", code |-> 0]
    /\ outs' = <<>>
    /\ hist' = [hist EXCEPT !.conf = @ + 1]
    /\ Quiet

\* the resendts of snd_buf that lie ahead of current, and the next of them
DeadLines(k) ==
    {t \in {k.snd_buf[i].resendts : i \in 1..Len(k.snd_buf)} :
       i32(t - k.current) > 0}
DeadLine(k) ==
    {t \in DeadLines(k) : \A s \in DeadLines(k) : i32(s - t) >= 0}

\* update at the next resendts of snd_buf
DeadTimeout ==
    /\ hist.tick < DeadTicks /\ kcb.updated = 1
    /\ \E t \in DeadLine(kcb) :
         LET r == update(kcb, t)
         IN /\ kcb' = r.k
            /\ outs' = r.outs
            /\ ret' = [op |-> "update", code |-> 0]
            /\ hist' = [hist EXCEPT !.tick = @ + 1,
                          !.tx = [sn \in DOMAIN @ |-> @[sn] + PushCount(r.outs, sn)]]
    /\ Quiet

\* the first update at time 0, or an update one interval later
DeadUpdate ==
    /\ hist.small < DeadSmall /\ DeadPhase
    /\ LET t == IF kcb.updated = 0 THEN 0 ELSE u32(kcb.current + IKCP_INTERVAL)
           r == update(kcb, t)
       IN /\ kcb' = r.k
          /\ outs' = r.outs
          /\ ret' = [op |-> "update", code |-> 0]
          /\ hist' = [hist EXCEPT !.small = @ + 1,
                        !.tx = [sn \in DOMAIN @ |-> @[sn] + PushCount(r.outs, sn)]]
    /\ Quiet

\* the datagrams given to input: the ACK of sn 0, a PUSH with sn 0, and
\* the ACK of sn 0 followed by a segment with an unknown cmd
DeadDatagrams(k) ==
    { Dgram(<<Wire(CONV, IKCP_CMD_ACK, 0, IKCP_WND_RCV, k.current, 0, 1, <<>>)>>),
      Dgram(<<Wire(CONV, IKCP_CMD_PUSH, 0, IKCP_WND_RCV, k.current, 0, 0,
                   Payload(50, 2))>>),
      Dgram(<<Wire(CONV, IKCP_CMD_ACK, 0, IKCP_WND_RCV, k.current, 0, 1, <<>>),
              Wire(CONV, 99, 0, 0, k.current, 0, 1, <<>>)>>) }

DeadInput ==
    /\ hist.input < MaxMisc /\ DeadPhase
    /\ \E d \in DeadDatagrams(kcb) :
         LET r == input(kcb, d)
         IN /\ kcb' = r.k
            /\ ret' = [op |-> "input", code |-> r.ret]
    /\ outs' = <<>>
    /\ hist' = [hist EXCEPT !.input = @ + 1]
    /\ Quiet

DeadReceive ==
    /\ hist.recv < MaxRecv /\ DeadPhase
    /\ LET r == receive(kcb, 100)
       IN /\ kcb' = r.k
          /\ ret' = [op |-> "receive", code |-> r.ret]
    /\ outs' = <<>>
    /\ hist' = [hist EXCEPT !.recv = @ + 1]
    /\ Quiet

NextDead ==
    \/ DeadSend \/ DeadNoDelay \/ DeadTimeout \/ DeadUpdate \/ DeadInput
    \/ DeadReceive

SpecDead == InitDead /\ [][NextDead]_vars

-----------------------------------------------------------------------------
(* Properties of the dead-link state *)

\* the control block k with state set to 0
Alive(k) == [k EXCEPT !.state = 0]

\* send, input, flush and receive on k do what they do when state is 0
StateBlind(k) ==
    /\ \A len \in {0, 3} :
         /\ Alive(send(k, Payload(9, len)).k) = send(Alive(k), Payload(9, len)).k
         /\ send(k, Payload(9, len)).ret = send(Alive(k), Payload(9, len)).ret
    /\ \A d \in DeadDatagrams(k) :
         /\ Alive(input(k, d).k) = Alive(input(Alive(k), d).k)
         /\ input(k, d).ret = input(Alive(k), d).ret
    /\ Alive(flush(k).k) = Alive(flush(Alive(k)).k)
    /\ flush(k).outs = flush(Alive(k)).outs
    /\ \A len \in {-100, 1, 100} :
         /\ Alive(receive(k, len).k) = receive(Alive(k), len).k
         /\ receive(k, len).ret = receive(Alive(k), len).ret
         /\ receive(k, len).data = receive(Alive(k), len).data

\* C12: state is 0 or 0xffffffff; it is 0xffffffff exactly from the flush on
\* in which some sequence number was given to the output callback for the
\* dead_link-th time, whatever happens to the segment later; and send, input,
\* flush and receive behave as they do with state 0.
C12_DeadLink ==
    /\ kcb.state \in {0, ALL_ONES}
    /\ kcb.state = ALL_ONES <=> \E sn \in DOMAIN hist.tx : hist.tx[sn] >= kcb.dead_link
    /\ StateBlind(kcb)

\* sn 0 was transmitted dead_link times, then acknowledged: snd_buf is empty
\* and state is still 0xffffffff
C12_Witness ==
    /\ kcb.state = ALL_ONES
    /\ hist.tx[0] = IKCP_DEADLINK
    /\ ret.op = "input" /\ ret.code = 0
    /\ kcb.snd_una = 1 /\ kcb.snd_buf = <<>>

-----------------------------------------------------------------------------
(* Properties of a repeated ACK *)

\* datagrams of a single ACK segment: for sn 0 and sn 1, with the cumulative
\* una at or past the head, stamped now or 40 ms ago, with an open or a
\* closed window
SingleAcks(k) ==
    { Dgram(<<Wire(CONV, IKCP_CMD_ACK, 0, p[4], u32(k.current - p[3]), p[1], p[2], <<>>)>>) :
        p \in { <<0, 0, 0, IKCP_WND_RCV>>, <<1, 0, 40, IKCP_WND_RCV>>,
                <<0, 1, 40, IKCP_WND_RCV>>, <<1, 2, 0, 0>> } }

\* the control block k without the RTT estimator and the fastack counters
AckCore(k) ==
    [k EXCEPT !.rx_srtt = 0, !.rx_rttval = 0, !.rx_rto = 0,
              !.snd_buf = [i \in DOMAIN @ |-> [@[i] EXCEPT !.fastack = 0]]]

\* C13 (as claimed): input of a single-ACK datagram twice leaves the control
\* block as input of it once does, on every field.
C13_AckTwiceSameState ==
    \A d \in SingleAcks(kcb) :
        LET once == input(kcb, d)
        IN input(once.k, d).k = once.k

\* C13 (amended): input of a single-ACK datagram twice returns the same code
\* and leaves the control block as input of it once does on every field but
\* rx_srtt, rx_rttval, rx_rto and the fastack counters of snd_buf.
C13_AckTwiceSameCore ==
    \A d \in SingleAcks(kcb) :
        LET once == input(kcb, d)
            twice == input(once.k, d)
        IN AckCore(twice.k) = AckCore(once.k) /\ twice.ret = once.ret

\* the ACK of sn 1 was given to input twice while sn 0 stayed in snd_buf:
\* the second delivery removed nothing and counted for sn 0 again
C13_Witness ==
    /\ ret.op = "input" /\ ret.code = 0 /\ hist.input = 2
    /\ Len(kcb.snd_buf) = 1 /\ kcb.snd_nxt = 2
    /\ Head(kcb.snd_buf).sn = 0 /\ Head(kcb.snd_buf).fastack = 2

-----------------------------------------------------------------------------
(* Properties of a rejected send *)

\* C14 (as claimed): a send that returns -2 leaves the control block as it
\* was, in message mode and in stream mode.
C14_RejectedSendChangesNothing ==
    [][ (ret'.op = "send" /\ ret'.code = -2) => kcb' = kcb ]_vars

-----------------------------------------------------------------------------
(* Properties of check *)

\* the times at which check is asked: now, half an interval later, just
\* before ts_flush and at ts_flush
CheckTimes(k) ==
    {k.current, u32(k.current + 50), u32(k.ts_flush - 1), k.ts_flush}

\* the smallest of the positive distances resendts - t over buf, or far
NextResend(buf, t, far) ==
    LET ds == {i32(buf[i].resendts - t) : i \in 1..Len(buf)} \cup {far}
    IN CHOOSE d \in ds : \A e \in ds : d <= e

\* C15 (as claimed): check(t) = r with 0 <= r - t <= interval; r = t when
\* update was never called, when t has reached ts_flush or when some segment
\* of snd_buf has resendts <= t; otherwise
\* r = t + min(ts_flush - t, the smallest resendts - t, interval).
C15_CheckDeadline ==
    \A t \in CheckTimes(kcb) :
        LET r == check(kcb, t)
            due == \/ kcb.updated = 0
                   \/ i32(t - kcb.ts_flush) >= 0
                   \/ \E i \in 1..Len(kcb.snd_buf) :
                        i32(kcb.snd_buf[i].resendts - t) <= 0
        IN /\ i32(r - t) >= 0 /\ i32(r - t) <= kcb.interval
           /\ due => r = t
           /\ ~due => r = u32(t + Min(Min(i32(kcb.ts_flush - t),
                                          NextResend(kcb.snd_buf, t, kcb.interval)),
                                      kcb.interval))

-----------------------------------------------------------------------------
(* Properties of the comparison helper *)

\* sequence numbers and times on both sides of the wrap and of the sign
WrapValues ==
    {0, 1, IKCP_WND_RCV, UINT32 \div 2 - 1, UINT32 \div 2, UINT32 \div 2 + 1,
     ALL_ONES - 1, ALL_ONES}

\* a PUSH segment with sequence number sn
PushSeg(sn) ==
    [ conv |-> CONV, cmd |-> IKCP_CMD_PUSH, frg |-> 0, wnd |-> IKCP_WND_RCV,
      ts |-> 0, sn |-> sn, una |-> 0, data |-> Payload(60, 1) ]

\* C16 (as claimed): _itimediff(a, b) is negative exactly when a - b,
\* reduced to the word, has its top bit set; so an ACK with sn below snd_una
\* changes nothing, a una at or below the head of snd_buf removes nothing,
\* and a PUSH with sn below rcv_nxt or at or past rcv_nxt + rcv_wnd is not
\* put into rcv_buf.
C16_SignedDifference ==
    /\ \A a \in WrapValues, b \in WrapValues :
         _itimediff(a, b) < 0 <=> u32(a - b) >= UINT32 \div 2
    /\ \A d \in {1, IKCP_WND_RCV} :
         /\ parse_ack(kcb, u32(kcb.snd_una - d)) = kcb
         /\ parse_una(kcb, u32(kcb.snd_una - d)) = kcb
         /\ parse_data(kcb, PushSeg(u32(kcb.rcv_nxt - d))) = kcb
         /\ parse_data(kcb, PushSeg(u32(kcb.rcv_nxt + kcb.rcv_wnd + d - 1))) = kcb

-----------------------------------------------------------------------------
(* Properties of the congestion window *)

\* C17 (as claimed): cwnd >= 1 in every reachable state, the state after
\* construction included.
C17_CwndAtLeastOne == kcb.cwnd >= 1

\* C17 (amended): cwnd is 0 from construction until the first update, whose
\* flush raises it to 1, and cwnd >= 1 in every state from then on; a flush
\* before the first update returns at once and leaves cwnd at 0.
C17_CwndAfterFirstUpdate ==
    /\ kcb.updated = 0 => kcb.cwnd = 0
    /\ kcb.updated = 1 => kcb.cwnd >= 1
    /\ kcb.updated \in {0, 1}

\* an ACK that advanced snd_una has grown cwnd beyond 1
C17_Witness ==
    /\ kcb.updated = 1
    /\ ret.op = "input" /\ ret.code = 0
    /\ kcb.snd_una > 0 /\ kcb.cwnd >= 2

-----------------------------------------------------------------------------
(* Properties of the return code of input *)

\* datagrams beside those of the environment: fewer than 24 bytes, an ACK
\* followed by 23 bytes, and first segments with two faults at once
OddDatagrams(k) ==
    { [segs |-> <<>>, trail |-> 23],
      [segs |-> <<Wire(CONV, IKCP_CMD_ACK, 0, IKCP_WND_RCV, k.current, 0, 0, <<>>)>>,
       trail |-> 23],
      Dgram(<<Wire(CONV + 1, 99, 0, 0, k.current, 0, 0, <<>>)>>),
      Dgram(<<[Wire(CONV, 99, 0, 0, k.current, 0, 0, <<>>) EXCEPT !.len = 1]>>),
      Dgram(<<[Wire(CONV + 1, IKCP_CMD_PUSH, 0, 0, k.current, 0, 0, <<>>)
                 EXCEPT !.len = 1]>>) }

RECURSIVE InputCode(_, _, _)
\* the return code by the rule: at the first segment at fault, -1 for another
\* conv, else -2 for a len beyond the bytes left, else -3 for an unknown cmd;
\* 0 when fewer than 24 bytes are left
InputCode(conv, ws, size) ==
    IF size < IKCP_OVERHEAD \/ ws = <<>> THEN 0
    ELSE IF Head(ws).conv # conv THEN -1
    ELSE IF Head(ws).len > size - IKCP_OVERHEAD THEN -2
    ELSE IF Head(ws).cmd \notin {81, 82, 83, 84} THEN -3
    ELSE InputCode(conv, Tail(ws), size - IKCP_OVERHEAD - Head(ws).len)

\* C18: input returns -1 for null data, for fewer than 24 bytes and for a
\* scanned segment with another conv, -2 for a len beyond the remaining
\* bytes, -3 for a cmd outside {81, 82, 83, 84}, decided at the first segment
\* at fault in that order, and 0 otherwise, also with fewer than 24 bytes
\* left behind the last segment.
C18_InputReturnCode ==
    /\ input_null(kcb).ret = -1
    /\ \A d \in EnvDatagrams(kcb) \cup OddDatagrams(kcb) \cup DeadDatagrams(kcb) :
         input(kcb, d).ret = IF dgram_size(d) < 24 THEN -1
                             ELSE InputCode(kcb.conv, d.segs, dgram_size(d))

\* input accepted the first segment of a datagram, removed the segment it
\* acknowledged and returned -3 at the second
C18_Witness ==
    /\ ret.op = "input" /\ ret.code = -3
    /\ kcb.snd_nxt >= 1 /\ kcb.snd_una = 1
    /\ \A i \in 1..Len(kcb.snd_buf) : kcb.snd_buf[i].sn # 0
    /\ hist.tx[0] >= 1

-----------------------------------------------------------------------------
(* Properties of the return code of receive *)

\* the return code by the rule, for a caller's capacity cap
ReceiveCode(k, cap) ==
    IF k.rcv_queue = <<>> THEN -1
    ELSE IF PeekSize(k) = -1 THEN -2
    ELSE IF cap < PeekSize(k) THEN -3
    ELSE PeekSize(k)

\* C19 (as claimed): both forms of receive return -1 for an empty rcv_queue,
\* -2 for an incomplete head message, -3 for a capacity below the size of
\* the head message, and otherwise that size, which is what PeekSize
\* returns.
C19_ReceiveReturnCode ==
    /\ \A len \in {0, 1, 100} : receive(kcb, len).ret = ReceiveCode(kcb, len)
    /\ \A size \in {0, 1, 100} :
         receive_vector(kcb, size).ret = ReceiveCode(kcb, size)

-----------------------------------------------------------------------------
(* Properties of the two endpoints: what A discards against what B holds *)

\* endpoint k has accepted sn: delivered to rcv_queue (sn < rcv_nxt) or held
\* in rcv_buf
Accepted(k, sn) ==
    \/ i32(sn - k.rcv_nxt) < 0
    \/ \E i \in 1..Len(k.rcv_buf) : k.rcv_buf[i].sn = sn

\* the sns that leave A's snd_buf in the step
Discarded == Range(Sns(kcb.snd_buf)) \ Range(Sns(kcb'.snd_buf))

\* every datagram B has emitted carries no una beyond B.rcv_nxt and no ACK
\* for an sn B has not accepted
AcksHeld ==
    \A d \in b2a : \A i \in 1..Len(d.segs) :
        /\ i32(d.segs[i].una - peer.rcv_nxt) <= 0
        /\ d.segs[i].cmd = IKCP_CMD_ACK => Accepted(peer, d.segs[i].sn)

\* C20: over a channel that loses, duplicates and reorders datagrams, every
\* sn that A removes from snd_buf (by a cumulative una or by an ACK for that
\* sn) has already been accepted by B (sn < B.rcv_nxt or sn in B.rcv_buf),
\* and B never emits an ACK for an sn, nor a una greater than an sn, that it
\* does not hold and has not delivered.
C20_SenderKeepsUnreceived ==
    /\ []AcksHeld
    /\ [][\A sn \in Discarded : Accepted(peer, sn)]_vars

\* A.input has removed sn 0 .. snd_una - 1 by una and a later sn by its ACK
\* while an earlier one stays in snd_buf; B holds every sn A has removed
C20_Witness ==
    /\ ret.op = "input" /\ ret.code = 0
    /\ kcb.snd_una >= 1
    /\ kcb.snd_buf # <<>>
    /\ kcb.snd_nxt - kcb.snd_una > Len(kcb.snd_buf)
    /\ \A sn \in 0..(kcb.snd_nxt - 1) :
         sn \in Range(Sns(kcb.snd_buf)) \/ Accepted(peer, sn)
    /\ \E i \in 1..Len(peer.rcv_buf) : peer.rcv_buf[i].sn > peer.rcv_nxt

-----------------------------------------------------------------------------
(* SpecRto: the retransmission decisions of flush.  A is configured once
   with a send window of 1 or IKCP_WND_SND segments, a nodelay mode, a
   fast-resend threshold and congestion control on or off, sends RtoSends one-byte messages at any time, and is driven by
   update at ticks of one or four times IKCP_INTERVAL, by direct calls of flush
   and by ACK datagrams whose ts is the current time. *)

RtoSends == 4
RtoTicks == 4
RtoInputs == 2
RtoFlushes == 1

InitRto ==
    /\ long_bits \in {32, 64}
    /\ kcb = NewKcp(CONV)
    /\ peer = NoPeer
    /\ a2b = {} /\ b2a = {}
    /\ outs = <<>>
    /\ ret = [op |-> "new", code |-> 0]
    /\ sent = <<>> /\ rcvd = <<>>
    /\ hist = [pc |-> "setup", send |-> 0, input |-> 0, tick |-> 0, flush |-> 0]

RtoSetWindowSize ==
    /\ hist.pc = "setup"
    /\ \E sndwnd \in {1, IKCP_WND_SND} : kcb' = set_window_size(kcb, sndwnd, 0)
    /\ ret' = [op |-> "set_window_size", code |-> 0]
    /\ outs' = <<>>
    /\ hist' = [hist EXCEPT !.pc = "mode"]
    /\ Quiet

RtoNoDelay ==
    /\ hist.pc = "mode"
    /\ \E nodelay \in {0, 1, 2}, resend \in {0, 1}, nc \in {0, 1} :
         kcb' = no_delay(kcb, nodelay, -1, resend, nc)
    /\ ret' = [op |-> "no_delay", code |-> 0]
    /\ outs' = <<>>
    /\ hist' = [hist EXCEPT !.pc = "run"]
    /\ Quiet

RtoSend ==
    /\ hist.pc = "run" /\ hist.send < RtoSends
    /\ LET r == send(kcb, Payload(hist.send + 1, 1))
       IN /\ kcb' = r.k
          /\ ret' = [op |-> "send", code |-> r.ret]
    /\ outs' = <<>>
    /\ hist' = [hist EXCEPT !.send = @ + 1]
    /\ Quiet

RtoUpdate ==
    /\ hist.pc = "run" /\ hist.tick < RtoTicks
    /\ \E t \in IF kcb.updated = 0 THEN {0}
                ELSE {u32(kcb.current + n * IKCP_INTERVAL) : n \in {1, 4}} :
         LET r == update(kcb, t)
         IN /\ kcb' = r.k
            /\ outs' = r.outs
            /\ ret' = [op |-> IF r.flushed THEN "update" ELSE "update_idle",
                       code |-> 0]
    /\ hist' = [hist EXCEPT !.tick = @ + 1]
    /\ Quiet

RtoFlush ==
    /\ hist.pc = "run" /\ hist.flush < RtoFlushes /\ kcb.updated = 1
    /\ LET r == flush(kcb)
       IN /\ kcb' = r.k
          /\ outs' = r.outs
          /\ ret' = [op |-> "flush", code |-> 0]
    /\ hist' = [hist EXCEPT !.flush = @ + 1]
    /\ Quiet

\* an ACK for a later sn with una 0, or an ACK for sn 0 with una 1
RtoInput ==
    /\ hist.pc = "run" /\ hist.input < RtoInputs /\ kcb.snd_buf # <<>>
    /\ \E p \in {<<1, 0>>, <<2, 0>>, <<0, 1>>} :
         LET r == input(kcb, Dgram(<<Wire(CONV, IKCP_CMD_ACK, 0, IKCP_WND_RCV,
                                          kcb.current, p[1], p[2], <<>>)>>))
         IN /\ kcb' = r.k
            /\ ret' = [op |-> "input", code |-> r.ret]
    /\ outs' = <<>>
    /\ hist' = [hist EXCEPT !.input = @ + 1]
    /\ Quiet

NextRto ==
    \/ RtoSetWindowSize \/ RtoNoDelay \/ RtoSend \/ RtoUpdate \/ RtoFlush \/ RtoInput

SpecRto == InitRto /\ [][NextRto]_vars

-----------------------------------------------------------------------------
(* Properties of the retransmission decisions *)

\* the step ran the body of flush
FlushRan == ret'.op \in {"update", "flush"} /\ kcb'.updated = 1

\* current >= resendts, as a signed difference
Due(s, cur) == i32(cur - s.resendts) >= 0
\* fastack has reached the threshold fastresend of k
FastAcked(k, s) == k.fastresend > 0 /\ s.fastack >= k.fastresend
\* the fast-retransmit condition
FastDue(k, s) == FastAcked(k, s) /\ (s.xmit <= k.fastlimit \/ k.fastlimit <= 0)
\* what a timeout adds to the segment's rto
RtoGrowth(k, s) ==
    IF k.nodelay = 0 THEN Max(s.rto, k.rx_rto)
    ELSE IF k.nodelay = 1 THEN s.rto \div 2
    ELSE k.rx_rto \div 2
\* the positions of snd_buf whose retransmission timer has expired at cur
TimedOut(k, cur) ==
    {i \in 1..Len(k.snd_buf) : k.snd_buf[i].xmit > 0 /\ Due(k.snd_buf[i], cur)}

\* C21: a flush emits a segment of snd_buf exactly when xmit = 0, or
\* current >= resendts, or the fast-retransmit condition holds, and then
\* once; a timeout adds 1 to the segment's xmit and to the global xmit, grows
\* rto by max(rto, rx_rto), rto/2 or rx_rto/2 for nodelay 0, 1, 2, and sets
\* resendts = current + rto; with xmit > 0, current < resendts and fastack
\* below the threshold the segment is neither emitted nor changed.
C21_RetransmitDecision ==
    [][FlushRan =>
        /\ Len(kcb'.snd_buf) >= Len(kcb.snd_buf)
        /\ \A i \in 1..Len(kcb.snd_buf) :
             LET s == kcb.snd_buf[i]
                 s2 == kcb'.snd_buf[i]
                 cur == kcb'.current
             IN /\ s2.sn = s.sn
                /\ PushCount(outs', s.sn) =
                     IF s.xmit = 0 \/ Due(s, cur) \/ FastDue(kcb, s) THEN 1 ELSE 0
                /\ (s.xmit > 0 /\ Due(s, cur)) =>
                     /\ s2.xmit = s.xmit + 1
                     /\ s2.rto = s.rto + RtoGrowth(kcb, s)
                     /\ s2.resendts = u32(cur + s2.rto)
                /\ (s.xmit > 0 /\ ~Due(s, cur) /\ ~FastAcked(kcb, s)) =>
                     /\ s2.xmit = s.xmit
                     /\ s2.rto = s.rto
                     /\ s2.resendts = s.resendts
        /\ \A i \in (Len(kcb.snd_buf) + 1)..Len(kcb'.snd_buf) :
             PushCount(outs', kcb'.snd_buf[i].sn) = 1
        /\ kcb'.xmit = kcb.xmit + Cardinality(TimedOut(kcb, kcb'.current))
    ]_vars

\* a flush has retransmitted a segment on its first timeout (xmit = 2) by a
\* step other than half its rto, and has left another segment, sent once
\* and not yet due, alone
C21_Witness ==
    /\ ret.op \in {"update", "flush"}
    /\ kcb.xmit >= 1
    /\ \E i, j \in 1..Len(kcb.snd_buf) :
         /\ kcb.snd_buf[i].xmit = 2
         /\ kcb.snd_buf[i].rto # 3 * (IKCP_RTO_DEF \div 2)
         /\ kcb.snd_buf[i].resendts = u32(kcb.current + kcb.snd_buf[i].rto)
         /\ PushCount(outs, kcb.snd_buf[i].sn) = 1
         /\ kcb.snd_buf[j].xmit = 1
         /\ PushCount(outs, kcb.snd_buf[j].sn) = 0

-----------------------------------------------------------------------------
(* Properties of the send window *)

\* cwnd_eff: min(snd_wnd, rmt_wnd), and min with cwnd unless nocwnd is set
CwndEff(k) ==
    IF k.nocwnd = 0 THEN Min(k.cwnd, Min(k.snd_wnd, k.rmt_wnd))
    ELSE Min(k.snd_wnd, k.rmt_wnd)
\* snd_nxt - snd_una
InFlight(k) == i32(k.snd_nxt - k.snd_una)
\* the PUSH segments among the datagrams ds whose sn is not below sn
PushedFrom(ds, sn) ==
    SelectSeq(SegsOf(ds, IKCP_CMD_PUSH), LAMBDA w : i32(w.sn - sn) >= 0)

\* C22: a flush assigns new sequence numbers only while snd_nxt - snd_una <
\* cwnd_eff, so that afterwards snd_nxt - snd_una <= max(its value before,
\* cwnd_eff); the segments leave snd_queue in FIFO order, get consecutive
\* sns and reach the output callback in increasing sn order; with nocwnd = 0
\* and cwnd = 0 a flush transmits no data segment.
C22_WindowLimitsNewSegments ==
    [][FlushRan =>
        LET new == Len(kcb'.snd_buf) - Len(kcb.snd_buf)
            first == PushedFrom(outs', kcb.snd_nxt)
        IN /\ new >= 0 /\ new <= Len(kcb.snd_queue)
           /\ kcb'.snd_una = kcb.snd_una
           /\ kcb'.snd_nxt = u32(kcb.snd_nxt + new)
           /\ InFlight(kcb') <= Max(InFlight(kcb), CwndEff(kcb))
           /\ new > 0 => InFlight(kcb') <= CwndEff(kcb)
           /\ kcb'.snd_queue = SubSeq(kcb.snd_queue, new + 1, Len(kcb.snd_queue))
           /\ Len(first) = new
           /\ \A i \in 1..new :
                /\ kcb'.snd_buf[Len(kcb.snd_buf) + i].sn = u32(kcb.snd_nxt + i - 1)
                /\ kcb'.snd_buf[Len(kcb.snd_buf) + i].data = kcb.snd_queue[i].data
                /\ first[i].sn = u32(kcb.snd_nxt + i - 1)
                /\ first[i].data = kcb.snd_queue[i].data
           /\ (kcb.nocwnd = 0 /\ kcb.cwnd = 0) =>
                SegsOf(outs', IKCP_CMD_PUSH) = <<>>
    ]_vars

\* a flush has filled a window of one segment and left the rest of the
\* messages in snd_queue
C22_Witness ==
    /\ ret.op \in {"update", "flush"}
    /\ kcb.nocwnd = 0
    /\ kcb.snd_queue # <<>>
    /\ InFlight(kcb) = 1
    /\ Len(SegsOf(outs, IKCP_CMD_PUSH)) = 1
    /\ SegsOf(outs, IKCP_CMD_PUSH)[1].sn = u32(kcb.snd_nxt - 1)

-----------------------------------------------------------------------------
(* Properties of acknowledgement *)

RECURSIVE AcksOwed(_, _)
\* the (sn, ts) pairs the claim has input owe for the segments ws, taken in
\* order on the control block k: one for each PUSH with sn < rcv_nxt +
\* rcv_wnd as a signed difference, up to the first segment input rejects
AcksOwed(k, ws) ==
    IF ws = <<>> THEN <<>>
    ELSE LET w == Head(ws)
             r == input(k, Dgram(<<w>>))
         IN IF r.ret # 0 THEN <<>>
            ELSE (IF w.cmd = IKCP_CMD_PUSH /\ i32(w.sn - (k.rcv_nxt + k.rcv_wnd)) < 0
                  THEN <<(<<w.sn, w.ts>>)>> ELSE <<>>)
                 \o AcksOwed(r.k, Tail(ws))

\* the ACK segment the claim has flush emit for the pair a of acklist
AckWire(k, a) ==
    Wire(k.conv, IKCP_CMD_ACK, 0, Max(k.rcv_wnd - Len(k.rcv_queue), 0),
         a[2], a[1], k.rcv_nxt, <<>>)

\* C23: every PUSH that input processes with sn < rcv_nxt + rcv_wnd (signed
\* difference), a duplicate or an already delivered one included, adds one
\* (sn, ts) to acklist, in arrival order; the next flush after update has
\* been called emits one ACK for each pair, in order, with una = rcv_nxt and
\* wnd = max(rcv_wnd - rcv_queue.size(), 0), and leaves acklist empty; a
\* PUSH with sn >= rcv_nxt + rcv_wnd owes no ACK and changes none of
\* rcv_buf, rcv_queue, rcv_nxt.
C23_AckForEveryPush ==
    /\ \A d \in RcvDatagrams(kcb) :
         LET once == input(kcb, d).k
         IN /\ once.acklist = kcb.acklist \o AcksOwed(kcb, d.segs)
            /\ (AcksOwed(kcb, d.segs) = <<>> /\ Len(d.segs) = 1) =>
                 /\ once.rcv_buf = kcb.rcv_buf
                 /\ once.rcv_queue = kcb.rcv_queue
                 /\ once.rcv_nxt = kcb.rcv_nxt
    /\ LET f == flush(kcb)
       IN IF kcb.updated = 0 THEN f.k.acklist = kcb.acklist /\ f.outs = <<>>
          ELSE /\ f.k.acklist = <<>>
               /\ SegsOf(f.outs, IKCP_CMD_ACK) =
                    [i \in 1..Len(kcb.acklist) |-> AckWire(kcb, kcb.acklist[i])]

-----------------------------------------------------------------------------
(* Properties of the congestion response *)

\* the positions of snd_buf that a flush at cur retransmits early
FastSent(k, cur) ==
    {i \in 1..Len(k.snd_buf) :
        /\ k.snd_buf[i].xmit > 0
        /\ ~Due(k.snd_buf[i], cur)
        /\ FastDue(k, k.snd_buf[i])}

\* C24: a flush with a timeout retransmit ends with cwnd = 1, incr = mss and
\* ssthresh = max(cwnd_eff/2, 2), also when it made a fast retransmit; one
\* with fast retransmits only ends with ssthresh = max((snd_nxt - snd_una)/2,
\* 2), cwnd = ssthresh + fastresend and incr = cwnd*mss; one with neither
\* leaves ssthresh alone and changes cwnd only by the floor to 1.
\* ssthresh >= 2 in every reachable state.
C24_CongestionResponse ==
    /\ [](kcb.ssthresh >= IKCP_THRESH_MIN)
    /\ [][FlushRan =>
            IF TimedOut(kcb, kcb'.current) # {}
            THEN /\ kcb'.cwnd = 1
                 /\ kcb'.incr = kcb.mss
                 /\ kcb'.ssthresh = Max(CwndEff(kcb) \div 2, 2)
            ELSE IF FastSent(kcb, kcb'.current) # {}
            THEN /\ kcb'.ssthresh = Max(InFlight(kcb') \div 2, 2)
                 /\ kcb'.cwnd = kcb'.ssthresh + kcb.fastresend
                 /\ kcb'.incr = kcb'.cwnd * kcb.mss
            ELSE /\ kcb'.ssthresh = kcb.ssthresh
                 /\ kcb'.cwnd = Max(kcb.cwnd, 1)
       ]_vars

\* the only timeout retransmit so far and a fast retransmit happened in the
\* same flush, which ended with cwnd = 1
C24_Witness ==
    /\ ret.op \in {"update", "flush"}
    /\ kcb.xmit = 1
    /\ kcb.cwnd = 1 /\ kcb.incr = kcb.mss
    /\ \E i, j \in 1..Len(kcb.snd_buf) :
         /\ i # j
         /\ kcb.snd_buf[i].xmit = 2 /\ PushCount(outs, kcb.snd_buf[i].sn) = 1
         /\ kcb.snd_buf[j].xmit = 2 /\ PushCount(outs, kcb.snd_buf[j].sn) = 1
         /\ kcb.snd_buf[j].fastack = 0
         /\ kcb.snd_buf[i].rto > kcb.snd_buf[j].rto

-----------------------------------------------------------------------------
(* SpecRtt: the RTT estimator.  The control block is driven by update at
   steps of 10 or 100 ms and by datagrams of one ACK whose ts lies 0, 10 or
   100 ms before the current time, or 5 ms after it.  hist.samples counts
   the ACKs given to input whose ts was not later than current. *)

RttInputs == 3

\* the distances current - ts of the ACKs given to input
RttOffsets == {0, 10, 100, -5}
\* a datagram of one ACK with ts = current - r
RttAck(k, r) ==
    Dgram(<<Wire(CONV, IKCP_CMD_ACK, 0, IKCP_WND_RCV, u32(k.current - r), 0, 0, <<>>)>>)
\* ts <= current, as a signed difference
IsSample(k, d) == i32(k.current - d.segs[1].ts) >= 0

InitRtt ==
    /\ long_bits \in {32, 64}
    /\ kcb = NewKcp(CONV)
    /\ peer = NoPeer
    /\ a2b = {} /\ b2a = {}
    /\ outs = <<>>
    /\ ret = [op |-> "new", code |-> 0]
    /\ sent = <<>> /\ rcvd = <<>>
    /\ hist = [input |-> 0, tick |-> 0, samples |-> 0]

RttInput ==
    /\ hist.input < RttInputs
    /\ \E r \in RttOffsets :
         LET r1 == input(kcb, RttAck(kcb, r))
         IN /\ kcb' = r1.k
            /\ ret' = [op |-> "input", code |-> r1.ret]
            /\ hist' = [hist EXCEPT !.input = @ + 1,
                                    !.samples = IF IsSample(kcb, RttAck(kcb, r))
                                                THEN @ + 1 ELSE @]
    /\ outs' = <<>>
    /\ Quiet

NextRtt == RttInput \/ DoUpdate({0}, {10, 100})

SpecRtt == InitRtt /\ [][NextRtt]_vars

-----------------------------------------------------------------------------
(* Properties of the RTT estimator *)

\* [srtt, rttval, rto] after the sample r, by the rule of the claim: the
\* first-sample rule when first, the smoothing rule otherwise
RttClaimed(k, r, first) ==
    LET delta == IF r - k.rx_srtt < 0 THEN k.rx_srtt - r ELSE r - k.rx_srtt
        rttval == IF first THEN r \div 2 ELSE (3 * k.rx_rttval + delta) \div 4
        srtt == IF first THEN r ELSE Max((7 * k.rx_srtt + r) \div 8, 1)
    IN [ srtt |-> srtt, rttval |-> rttval,
         rto |-> Min(Max(k.rx_minrto, srtt + Max(k.interval, 4 * rttval)),
                     IKCP_RTO_MAX) ]
\* the estimator of the control block k
RttOf(k) == [srtt |-> k.rx_srtt, rttval |-> k.rx_rttval, rto |-> k.rx_rto]

\* C25: the first RTT sample sets srtt = r and rttval = r/2; every later
\* sample, also after a first sample of 0, sets rttval = (3*rttval +
\* |r - srtt|)/4 and srtt = max((7*srtt + r)/8, 1); after each sample rx_rto
\* = min(max(rx_minrto, srtt + max(interval, 4*rttval)), 60000); an ACK with
\* ts later than current contributes no sample.
C25_RttEstimator ==
    \A r \in RttOffsets :
        LET d == RttAck(kcb, r)
            once == input(kcb, d).k
        IN IF IsSample(kcb, d)
           THEN RttOf(once) = RttClaimed(kcb, r, hist.samples = 0)
           ELSE RttOf(once) = RttOf(kcb)

-----------------------------------------------------------------------------
(* Properties of check as a sleep hint *)

\* times u with t <= u < r: both ends, the second millisecond and the middle
Between(t, r) ==
    {u32(t + n) : n \in {m \in {0, 1, i32(r - t) \div 2, i32(r - t) - 1} :
                            m < i32(r - t)}}

\* with no other call in between, update at any u \in Between(t, r), and at
\* two such times in a row, runs no flush, emits nothing and changes only
\* current, so that update(r) afterwards does what update(r) does at once
Sleeps(k, t, r) ==
    \A u \in Between(t, r) :
        LET a == update(k, u)
        IN /\ ~a.flushed
           /\ a.outs = <<>>
           /\ a.k = [k EXCEPT !.current = u]
           /\ \A v \in {w \in Between(t, r) : i32(w - u) >= 0} :
                /\ update(a.k, v).k = [k EXCEPT !.current = v]
                /\ update(update(a.k, v).k, r) = update(k, r)

\* C26: if check(t) returns r later than t, then update(u) at any u with
\* t <= u < r invokes no flush, emits nothing and changes nothing but
\* current, so that skipping every update until r leads to the same state
\* and the same datagrams; and after an update(u) that invoked flush,
\* ts_flush is later than u by at least 1 and at most interval.
C26_CheckIsSoundSleepHint ==
    /\ [](\A t \in CheckTimes(kcb) :
            i32(check(kcb, t) - t) > 0 => Sleeps(kcb, t, check(kcb, t)))
    /\ [][(ret'.op = "update" /\ update(kcb, kcb'.current).flushed) =>
            /\ i32(kcb'.ts_flush - kcb'.current) >= 1
            /\ i32(kcb'.ts_flush - kcb'.current) <= kcb'.interval]_vars

\* after an update that flushed, with a segment waiting in snd_buf, check
\* names a later time, and an update one millisecond before it is idle
C26_Witness ==
    /\ ret.op = "update"
    /\ kcb.snd_buf # <<>>
    /\ i32(check(kcb, kcb.current) - kcb.current) > 1
    /\ ~update(kcb, u32(check(kcb, kcb.current) - 1)).flushed
    /\ update(kcb, check(kcb, kcb.current)).flushed

====
